---- MODULE Spec2Model ----
(***************************************************************************)
(* Model of the briefkit execution pipeline: the filesystem execution      *)
(* store, the runner worker (RunnerCommand.Run) and the runtime instance   *)
(* (child process, stdout scanner task, done signal) it supervises.        *)
(*                                                                         *)
(* One execution is modelled.  Every runner process is a small program     *)
(* counter machine whose steps are the store operations and the adapter    *)
(* calls of RunnerCommand.Run, in source order.                            *)
(***************************************************************************)
EXTENDS Integers, FiniteSets, Sequences, TLC

VARIABLES
    exists,       \* the execution directory exists in the store
    status,       \* contents of status.json
    resultFile,   \* contents of result.json: {} when absent, {r} when present
    agentKind,    \* runtime kind of the agent-config.json snapshot
    clock,        \* time.Now(), a logical clock that ticks on every store write
    pc,           \* per runner: position in RunnerCommand.Run
    retry,        \* per runner: the --retry flag
    rstatus,      \* per runner: the local executionStatus variable of Run
    pendErr,      \* per runner: the error handed to finishExecutionWithError
    retErr,       \* per runner: the value returned by Run
    runCtx,       \* per runner: "none", "live" or "done" (runCtx of Run)
    sel,          \* per runner: the case taken by the select of Instance.Wait
    child,        \* per runner: child process "none", "running", "exited"
    cexit,        \* per runner: exit code of the child (-1: killed by signal)
    parseErr,     \* per runner: the stdout scanner hit a read error
    done,         \* per runner: instance.done is closed
    ierr,         \* per runner: instance.err
    iresult,      \* per runner: instance.result (the parsed response)
    wrote,        \* per runner: store writes performed by the current run
    fsFault,      \* per runner: a filesystem fault hit a write of the current run
    lastFailed,   \* the last failed status that was persisted
    runs,         \* number of runner processes started so far
    guardPassed,  \* number of runs that passed the state guard
    startedRuns,  \* number of runs whose started status write succeeded
    events,       \* per runner: buffer of the instance.events channel
    emitted,      \* per runner: every event the events channel accepted
    closes,       \* per runner: number of close(instance.events) calls
    irun,         \* per runner: position of the Instance.run goroutine
    drain,        \* per runner: the drainRuntimeEvents goroutine
    spc,          \* submitter: position in ExecCmd.Run / the MCP tool handler
    sfe,          \* submitter: the front end, "cli" or "mcp"
    sctx,         \* submitter: its context, "live", "cancelled" or "deadline"
    sret,         \* submitter: what it returned
    released,     \* Spawn started the runner and released its process handle
    root,         \* repository: entries of the store root, by name
    execs,        \* repository: files of each execution directory
    ret,          \* repository: what the last repository call returned
    issued,       \* repository: the ids Create has returned
    given,        \* repository: the input and agent config given to Create
    setLog,       \* repository: the results SetResult has stored, oldest first
    agents,       \* agent config repository: the config of the agent, or "none"
    inputFile,    \* contents of input.json: {} when absent
    cfile,        \* claude adapter: the config file ~/.claude.json
    ctmp,         \* claude adapter: the temp file <path>~, "absent" or "present"
    cret,         \* claude adapter: the last call and what it returned
    okind,        \* adapter instance: its kind, "none" before newInstance
    stdout,       \* adapter instance: the lines the child has written
    scanPos,      \* adapter instance: the lines the scanner has consumed
    oresult,      \* adapter instance: instance.result
    watchRet,     \* adapter instance: "running" or what watch*Events returned
    logsOpen,     \* per runner: the session log files that are open
    elapsed,      \* per runner: time.Now(), as time passed since the process began
    evAt,         \* per runner: the timestamps of the two runtime events and
                  \* the time at which the child was reaped
    built         \* the last argument vector an adapter built: its inputs, the
                  \* error or the list handed to exec.CommandContext

vars == <<exists, status, resultFile, agentKind, clock, pc, retry, rstatus,
          pendErr, retErr, runCtx, sel, child, cexit, parseErr, done, ierr,
          iresult, wrote, fsFault, lastFailed, runs, guardPassed,
          startedRuns, events, emitted, closes, irun, drain, spc, sfe, sctx,
          sret, released, root, execs, ret, issued, given, setLog, agents,
          inputFile, cfile, ctmp, cret, okind, stdout, scanPos,
          oresult, watchRet, logsOpen, elapsed, evAt, built>>

storeVars == <<exists, status, resultFile, agentKind>>

instVars == <<child, cexit, parseErr, done, ierr, iresult>>

evVars == <<events, emitted, closes, irun, drain>>

subVars == <<spc, sfe, sctx, sret, released>>

repoVars == <<root, execs, ret, issued, given, setLog>>

snapVars == <<agents, inputFile>>

claudeVars == <<cfile, ctmp, cret>>

watchVars == <<okind, stdout, scanPos, oresult, watchRet>>

sessVars == <<logsOpen, elapsed, evAt, built>>

runVars == <<pc, retry, rstatus, pendErr, retErr, runCtx, sel, wrote, fsFault,
             runs, guardPassed, startedRuns>>

(***************************************************************************)
(* Bounds                                                                  *)
(***************************************************************************)
NumRunners == 2

MaxRuns == 2

Runners == 1..NumRunners

(***************************************************************************)
(* Domain values                                                           *)
(***************************************************************************)
ExecutionCreated == "created"

ExecutionStarted == "started"

ExecutionRunning == "running"

ExecutionSucceeded == "succeeded"

ExecutionFailed == "failed"

ExecutionStates ==
    {ExecutionCreated, ExecutionStarted, ExecutionRunning, ExecutionSucceeded,
     ExecutionFailed}

IsFinished(state) == state = ExecutionSucceeded \/ state = ExecutionFailed

\* kinds an agent-config snapshot may name, and the kinds the registry knows
Kinds == {"claude", "codex", "unknown"}

RegisteredKinds == {"claude", "codex", "gemini"}

\* exit codes a child can exit with on its own
ExitCodes == {0, 2}

\* exec.ExitError.ExitCode() of a child terminated by a signal
KilledExitCode == 0 - 1

Responses == {"r1", "r2"}

\* an error value: its text, whether it is a *RuntimeExecutionError, and the
\* ExitCode of that error ({} when nil)
NoErr == [msg |-> "", runtime |-> FALSE, code |-> {}]

PlainErr(m) == [msg |-> m, runtime |-> FALSE, code |-> {}]

DeadlineMsg == "context deadline exceeded"

ErrExecutionNoResult == "execution result not found"

\* the submitter has not returned
NoReturn == [out |-> "none", seen |-> "", resp |-> {}, err |-> {}, code |-> {}]

NoStatus ==
    [state |-> "none", createdAt |-> 0, updatedAt |-> 0, finishedAt |-> {},
     attempts |-> 0, exitCode |-> {}, error |-> {}]

(***************************************************************************)
(* Execution repository: identifiers, inputs and their validation          *)
(* (internal/pkg/agent), the duration codec (internal/pkg/utils)           *)
(***************************************************************************)
\* number of executions created
MaxCreates == 2

\* number of entries put into the store root from outside the repository
MaxForeign == 1

\* number of SetResult calls
MaxSetResults == 2

\* number of UpdateStatus calls on a handle
MaxUpdateStatus == 2

\* identifiers are numbered: the UUID 00000000-0000-0000-0000-00000000000n is
\* n, and the order of the numbers is the lexicographic order of the strings
UUIDs == {1, 2, 3}

EmptyExecutionID == 0

\* names that uuid.Parse rejects: "not-a-uuid", "random-file"
OtherNames == {0 - 1, 0 - 2}

Names == UUIDs \cup OtherNames

ErrExecutionNotFound == "execution not found"

ErrExecutionIDInvalid == "execution id invalid"

ErrExecutionPromptRequired == "execution prompt required"

ErrExecutionTimeoutRequired == "execution timeout required"

ErrExecutionWorkingDirectoryRequired == "execution working directory required"

ErrExecutionWorkingDirectoryInvalid == "execution working directory invalid"

ErrExecutionWorkingDirectoryNotAbsolute ==
    "execution working directory not absolute"

ErrExecutionAttachmentMimeTypeRequired ==
    "execution attachment mime type required"

ErrExecutionAttachmentPathRequired == "execution attachment path required"

\* a validation that only rejects the empty id
ExecutionIDValidateNonEmpty(id) ==
    IF id = EmptyExecutionID THEN ErrExecutionIDInvalid ELSE ""

\* ExecutionID.Validate: "" when the id is valid
ExecutionIDValidate(id) ==
    IF id = EmptyExecutionID
    THEN ErrExecutionIDInvalid
    ELSE IF id \notin UUIDs THEN ErrExecutionIDInvalid ELSE ""

\* strings are sequences of characters
RECURSIVE TrimLeft(_)
TrimLeft(s) == IF s # <<>> /\ Head(s) = " " THEN TrimLeft(Tail(s)) ELSE s

RECURSIVE TrimRight(_)
TrimRight(s) ==
    IF s # <<>> /\ s[Len(s)] = " "
    THEN TrimRight(SubSeq(s, 1, Len(s) - 1))
    ELSE s

\* strings.TrimSpace
TrimSpace(s) == TrimRight(TrimLeft(s))

HomeDir == <<"/", "h">>

\* homedir.Expand: only "~" and "~/..." are expanded, "~user" is an error
HomedirExpand(path) ==
    IF path = <<>> \/ Head(path) # "~"
    THEN [err |-> FALSE, path |-> path]
    ELSE IF Len(path) > 1 /\ path[2] # "/"
         THEN [err |-> TRUE, path |-> <<>>]
         ELSE [err |-> FALSE, path |-> HomeDir \o Tail(path)]

\* filepath.IsAbs
IsAbs(path) == path # <<>> /\ Head(path) = "/"

\* an attachment validation that looks at the path first
AttachmentValidatePathFirst(attachment) ==
    IF TrimSpace(attachment.path) = <<>>
    THEN ErrExecutionAttachmentPathRequired
    ELSE IF TrimSpace(attachment.mimeType) = <<>>
         THEN ErrExecutionAttachmentMimeTypeRequired
         ELSE ""

\* ExecutionInputAttachment.Validate
AttachmentValidate(attachment) ==
    IF TrimSpace(attachment.mimeType) = <<>>
    THEN ErrExecutionAttachmentMimeTypeRequired
    ELSE IF TrimSpace(attachment.path) = <<>>
         THEN ErrExecutionAttachmentPathRequired
         ELSE ""

\* the loop over input.Attachments: the error of the first invalid attachment
RECURSIVE AttachmentsValidate(_)
AttachmentsValidate(attachments) ==
    IF attachments = <<>>
    THEN ""
    ELSE IF AttachmentValidate(Head(attachments)) # ""
         THEN AttachmentValidate(Head(attachments))
         ELSE AttachmentsValidate(Tail(attachments))

\* the working directory checks of ExecutionInput.Validate
WorkingDirectoryValidate(dir) ==
    IF TrimSpace(dir) = <<>>
    THEN ErrExecutionWorkingDirectoryRequired
    ELSE IF HomedirExpand(dir).err
         THEN ErrExecutionWorkingDirectoryInvalid
         ELSE IF ~IsAbs(HomedirExpand(dir).path)
              THEN ErrExecutionWorkingDirectoryNotAbsolute
              ELSE ""

\* a validation that accepts every input
ExecutionInputValidateNone(input) == ""

\* ExecutionInput.Validate: "" when the input is valid
ExecutionInputValidate(input) ==
    IF TrimSpace(input.prompt) = <<>>
    THEN ErrExecutionPromptRequired
    ELSE IF input.timeout <= 0
    THEN ErrExecutionTimeoutRequired
    ELSE IF input.workingDirectory # {}
            /\ \E d \in input.workingDirectory : WorkingDirectoryValidate(d) # ""
    THEN WorkingDirectoryValidate(CHOOSE d \in input.workingDirectory : TRUE)
    ELSE AttachmentsValidate(input.attachments)

\* the inputs given to Create: two valid ones, and one for every way of
\* failing validation
ValidInput ==
    [prompt |-> <<"p">>, timeout |-> 300, workingDirectory |-> {<<"/", "a">>},
     attachments |-> <<>>]

ValidInputAttached ==
    [prompt |-> <<" ", "q">>, timeout |-> 3700, workingDirectory |-> {},
     attachments |-> <<[mimeType |-> <<"t">>, path |-> <<"/", "f">>]>>]

InvalidInputs ==
    {[ValidInput EXCEPT !.prompt = <<" ">>],
     [ValidInput EXCEPT !.timeout = 0],
     [ValidInput EXCEPT !.workingDirectory = {<<" ">>}],
     [ValidInput EXCEPT !.workingDirectory = {<<"~", "u">>}],
     [ValidInput EXCEPT !.workingDirectory = {<<"a">>}],
     [ValidInputAttached EXCEPT !.attachments =
         <<[mimeType |-> <<>>, path |-> <<"/", "f">>]>>],
     [ValidInputAttached EXCEPT !.attachments =
         <<[mimeType |-> <<"t">>, path |-> <<" ">>]>>]}

Inputs == {ValidInput, ValidInputAttached} \cup InvalidInputs

\* the inputs Validate is called with directly: every combination of valid
\* and invalid fields, several of them invalid at once
ValidateAttachments ==
    LET ok == [mimeType |-> <<"t">>, path |-> <<"/", "f">>]
        noMime == [mimeType |-> <<" ">>, path |-> <<"/", "f">>]
        noPath == [mimeType |-> <<"t">>, path |-> <<>>]
        neither == [mimeType |-> <<>>, path |-> <<" ">>]
    IN  {<<>>, <<ok>>, <<noMime>>, <<noPath>>, <<neither>>, <<ok, noMime>>,
         <<ok, noPath>>, <<noPath, noMime>>, <<ok, ok>>}

ValidateInputs ==
    [prompt : {<<"p">>, <<" ", "q">>, <<" ">>, <<>>},
     timeout : {-1, 0, 300},
     workingDirectory : {{}, {<<"/", "a">>}, {<<"~", "/", "x">>}, {<<" ">>},
                         {<<>>}, {<<"~", "u">>}, {<<"a">>},
                         {<<" ", "/", "a">>}},
     attachments : ValidateAttachments]

\* a duration codec that writes whole minutes
DurationStringMinutes(d) == <<d \div 3600, (d % 3600) \div 60, 0>>

\* Duration.MarshalJSON: time.Duration.String(), hours, minutes and seconds
\* of a duration given in seconds
DurationString(d) == <<d \div 3600, (d % 3600) \div 60, d % 60>>

\* Duration.UnmarshalJSON of the string format: time.ParseDuration
ParseDuration(s) == s[1] * 3600 + s[2] * 60 + s[3]

\* input.json as written for an input, and the input read back from it
EncodeInput(input) == [input EXCEPT !.timeout = DurationString(input.timeout)]

DecodeInput(json) == [json EXCEPT !.timeout = ParseDuration(json.timeout)]

\* an execution directory without files
NoFiles == [input |-> {}, config |-> {}, status |-> {}, result |-> {}]

\* a repository call and what it returned: the identifier or the input it was
\* given, then the results; unused fields keep these values
NoRet ==
    [op |-> "none", arg |-> EmptyExecutionID, given |-> {},
     id |-> EmptyExecutionID, err |-> "", found |-> FALSE, ids |-> <<>>,
     input |-> {}, config |-> {}, result |-> {}, status |-> {}]

(***************************************************************************)
(* Runtime adapters (internal/pkg/runtime/{claude,codex,gemini}): the      *)
(* lines of the child's stdout and the events parsed from them.  A text is *)
(* a sequence of characters, so that appending is \o.                      *)
(***************************************************************************)
MaxLines == 3

WatchKinds == {"claude", "codex", "gemini"}

\* agent.RuntimeResult before any event
ZeroResult == [response |-> <<>>, conversationId |-> ""]

\* a line of stdout: form is "empty" (nothing but white space), "text" (does
\* not start with '{'), "badjson" (starts with '{', json.Unmarshal fails),
\* "long" (longer than the scanner's token limit) or "json"; the fields of a
\* json line are those of claudeEvent, codexEvent and geminiEvent (id is
\* session_id or thread_id, role is role or item.type, text is result,
\* item.text or content)
Line(form, type, subtype, id, role, text, content) ==
    [form |-> form, type |-> type, subtype |-> subtype, id |-> id,
     role |-> role, text |-> text, content |-> content]

EmptyLine == Line("empty", "", "", "", "", <<>>, <<>>)
GreetingLine == Line("text", "", "", "", "", <<"g">>, <<>>)
MalformedLine == Line("badjson", "assistant", "init", "s9", "assistant",
                      <<"m">>, <<[type |-> "text", text |-> <<"m">>]>>)
LongLine == Line("long", "", "", "", "", <<"l">>, <<>>)

NonEventLines == {EmptyLine, GreetingLine, MalformedLine, LongLine}

ClaudeContents ==
    { <<[type |-> "text", text |-> <<"a">>]>>,
      <<[type |-> "text", text |-> <<"a">>],
        [type |-> "tool_use", text |-> <<"t">>],
        [type |-> "text", text |-> <<"b">>]>> }

ClaudeEvents ==
    {Line("json", "system", "init", id, "", <<>>, <<>>) :
        id \in {"", "s1", "s2"}}
      \cup {Line("json", "system", "status", "s2", "", <<>>, <<>>)}
      \cup {Line("json", "assistant", "", "", "", <<>>, c) :
              c \in ClaudeContents}
      \cup {Line("json", "result", "success", "", "", r, <<>>) :
              r \in {<<>>, <<"r">>}}
      \cup {Line("json", "result", "error_during_execution", "", "", <<"e">>,
                 <<>>)}
      \cup {Line("json", "user", "", "s2", "", <<"u">>,
                 <<[type |-> "text", text |-> <<"u">>]>>)}

CodexEvents ==
    {Line("json", "thread.started", "", id, "", <<>>, <<>>) :
        id \in {"", "t1", "t2"}}
      \cup {Line("json", "item.completed", "", "", "agent_message", r, <<>>) :
              r \in {<<>>, <<"a">>, <<"b">>}}
      \cup {Line("json", "item.completed", "", "", "reasoning", <<"x">>, <<>>)}
      \cup {Line("json", "turn.completed", "", "t2", "agent_message", <<"y">>,
                 <<>>)}

GeminiEvents ==
    {Line("json", "init", "", id, "", <<>>, <<>>) : id \in {"", "s1", "s2"}}
      \cup {Line("json", "message", "", "", "assistant", c, <<>>) :
              c \in {<<"a">>, <<"b">>}}
      \cup {Line("json", "message", "", "", "user", <<"u">>, <<>>)}
      \cup {Line("json", "tool_use", "", "s2", "assistant", <<"x">>, <<>>)}

EventsOf(kind) ==
    CASE kind = "claude" -> ClaudeEvents
      [] kind = "codex" -> CodexEvents
      [] kind = "gemini" -> GeminiEvents
      [] OTHER -> {}

\* what the child of an adapter can write on one line
LinesOf(kind) == EventsOf(kind) \cup NonEventLines

\* the loop body's continue cases: the trimmed line is empty, does not start
\* with '{', or json.Unmarshal returns an error
Skipped(line) == line.form \in {"empty", "text", "badjson"}

\* for _, content := range event.Message.Content
RECURSIVE AppendTexts(_, _)
AppendTexts(response, content) ==
    IF content = <<>>
    THEN response
    ELSE AppendTexts(IF Head(content).type = "text"
                     THEN response \o Head(content).text
                     ELSE response,
                     Tail(content))

\* the result event's text joined to the response instead of replacing it
claudeEventAppendResult(res, event) ==
    CASE event.type = "system" ->
           IF event.subtype = "init" /\ event.id # ""
           THEN [res EXCEPT !.conversationId = event.id]
           ELSE res
      [] event.type = "assistant" ->
           [res EXCEPT !.response = AppendTexts(@, event.content)]
      [] event.type = "result" ->
           IF event.subtype = "success" /\ event.text # <<>>
           THEN [res EXCEPT !.response = @ \o event.text]
           ELSE res
      [] OTHER -> res

\* watchClaudeEvents: switch event.Type
claudeEvent(res, event) ==
    CASE event.type = "system" ->
           IF event.subtype = "init" /\ event.id # ""
           THEN [res EXCEPT !.conversationId = event.id]
           ELSE res
      [] event.type = "assistant" ->
           [res EXCEPT !.response = AppendTexts(@, event.content)]
      [] event.type = "result" ->
           IF event.subtype = "success" /\ event.text # <<>>
           THEN [res EXCEPT !.response = event.text]
           ELSE res
      [] OTHER -> res

\* the agent message joined to the response instead of replacing it
codexEventAppend(res, event) ==
    CASE event.type = "thread.started" ->
           IF event.id # ""
           THEN [res EXCEPT !.conversationId = event.id]
           ELSE res
      [] event.type = "item.completed" ->
           IF event.role = "agent_message"
           THEN [res EXCEPT !.response = @ \o event.text]
           ELSE res
      [] OTHER -> res

\* watchCodexEvents: switch event.Type
codexEvent(res, event) ==
    CASE event.type = "thread.started" ->
           IF event.id # ""
           THEN [res EXCEPT !.conversationId = event.id]
           ELSE res
      [] event.type = "item.completed" ->
           IF event.role = "agent_message"
           THEN [res EXCEPT !.response = event.text]
           ELSE res
      [] OTHER -> res

\* the content of a message of any role joined to the response
geminiEventAnyRole(res, event) ==
    CASE event.type = "init" ->
           IF event.id # ""
           THEN [res EXCEPT !.conversationId = event.id]
           ELSE res
      [] event.type = "message" ->
           [res EXCEPT !.response = @ \o event.text]
      [] OTHER -> res

\* watchGeminiEvents: switch event.Type
geminiEvent(res, event) ==
    CASE event.type = "init" ->
           IF event.id # ""
           THEN [res EXCEPT !.conversationId = event.id]
           ELSE res
      [] event.type = "message" ->
           IF event.role = "assistant"
           THEN [res EXCEPT !.response = @ \o event.text]
           ELSE res
      [] OTHER -> res

\* one iteration of the scanner loop of the adapter of the kind
watchLine(kind, res, line) ==
    IF Skipped(line)
    THEN res
    ELSE CASE kind = "claude" -> claudeEvent(res, line)
           [] kind = "codex" -> codexEvent(res, line)
           [] kind = "gemini" -> geminiEvent(res, line)

(***************************************************************************)
(* Claude adapter: the config file and its MCP server entries              *)
(* (internal/pkg/runtime/claude/config.go, runtime.go)                     *)
(***************************************************************************)
ErrMCPServerNotFound == "mcp server not found"

\* the name setup registers the server under
SetupName == "briefkit"

\* names of MCP servers: the one setup registers, and one of the user's
MCPNames == {SetupName, "filesystem"}

\* an entry of mcpServers: whether the key is there, its type ("" without a
\* type key), its command, its args ({} without an args key) and its other
\* fields
NoEntry ==
    [present |-> FALSE, type |-> "", command |-> "", args |-> {},
     other |-> ""]

StdioEntry ==
    [present |-> TRUE, type |-> "stdio", command |-> "npx",
     args |-> {<<"-y">>}, other |-> "env"]

SseEntry ==
    [present |-> TRUE, type |-> "sse", command |-> "", args |-> {},
     other |-> "url"]

\* the config file: "absent", "empty" (no bytes), "invalid" (not JSON), or
\* "json" with its top-level keys other than mcpServers, whether it has the
\* mcpServers key, and the entries of mcpServers
NoConfigFile ==
    [state |-> "absent", rest |-> "", hasServers |-> FALSE,
     servers |-> [n \in MCPNames |-> NoEntry]]

\* the bytes "{}"
EmptyObject == [NoConfigFile EXCEPT !.state = "json"]

\* the files a user can have
UserFiles ==
    {NoConfigFile, [NoConfigFile EXCEPT !.state = "empty"],
     [NoConfigFile EXCEPT !.state = "invalid"]}
    \cup {[state |-> "json", rest |-> "theme font_size telemetry",
           hasServers |-> TRUE, servers |-> s] :
             s \in [MCPNames -> {NoEntry, StdioEntry, SseEntry}]}
    \cup {[EmptyObject EXCEPT !.rest = "theme font_size telemetry"]}

\* the data the tests give writeClaudeConfig
WrittenData ==
    {[EmptyObject EXCEPT !.rest = "custom", !.hasServers = TRUE,
                         !.servers[SetupName] = StdioEntry]}

\* the servers given to AddMCPServer: STDIO without and with arguments, and
\* one whose STDIO field is nil
StdioServer == [stdio |-> TRUE, command |-> "briefkit-mcp", arguments |-> <<>>]

StdioServerArgs ==
    [stdio |-> TRUE, command |-> "briefkit-mcp", arguments |-> <<"serve">>]

OtherServer == [stdio |-> FALSE, command |-> "", arguments |-> <<>>]

MCPServers == {StdioServer, StdioServerArgs, OtherServer}

\* what the filesystem does during a call: nothing, a failing read of the
\* config file, a failing stat of the temp file, a failing write of the temp
\* file that leaves nothing or a partial file, a failing rename after which
\* the temp file is removed or stays
Faults ==
    {"none", "read", "stat", "write", "write-partial", "rename",
     "rename-keep"}

\* readClaudeConfig: the data, or an error
readClaudeConfig(file, fault) ==
    IF fault = "read"
    THEN [err |-> "read config file", data |-> EmptyObject]
    ELSE IF file.state = "absent" \/ file.state = "empty"
    THEN [err |-> "", data |-> EmptyObject]
    ELSE IF file.state = "invalid"
    THEN [err |-> "unmarshal config: invalid JSON syntax",
          data |-> EmptyObject]
    ELSE [err |-> "", data |-> file]

\* a write that goes to the config file directly
writeClaudeConfigInPlace(file, tmp, data, fault) ==
    IF fault \in {"stat", "write", "write-partial", "rename", "rename-keep"}
    THEN [err |-> "write config file", file |-> file, tmp |-> tmp]
    ELSE [err |-> "", file |-> data, tmp |-> tmp]

\* writeClaudeConfig: the error, and the config file and the temp file after
\* the call
writeClaudeConfig(file, tmp, data, fault) ==
    IF fault = "stat"
    THEN [err |-> "check temp file existence", file |-> file, tmp |-> tmp]
    ELSE IF tmp # "absent"
    THEN [err |-> "temp file already exists", file |-> file, tmp |-> tmp]
    ELSE IF fault = "write"
    THEN [err |-> "write temp file", file |-> file, tmp |-> "absent"]
    ELSE IF fault = "write-partial"
    THEN [err |-> "write temp file", file |-> file, tmp |-> "present"]
    ELSE IF fault = "rename"
    THEN [err |-> "rename temp file", file |-> file, tmp |-> "absent"]
    ELSE IF fault = "rename-keep"
    THEN [err |-> "rename temp file", file |-> file, tmp |-> "present"]
    ELSE [err |-> "", file |-> data, tmp |-> "absent"]

\* an add that writes mcpServers anew with the one entry
SetServerAlone(data, name, server) ==
    [data EXCEPT !.hasServers = TRUE,
                 !.servers = [n \in MCPNames |->
                     IF n = name
                     THEN [NoEntry EXCEPT !.present = TRUE, !.type = "stdio",
                                          !.command = server.command]
                     ELSE NoEntry]]

\* the sjson.SetBytes calls of AddMCPServer: type, command, and args when
\* there are arguments
SetServer(data, name, server) ==
    [data EXCEPT !.hasServers = TRUE,
                 !.servers[name] =
                     [@ EXCEPT !.present = TRUE, !.type = "stdio",
                               !.command = server.command,
                               !.args = IF Len(server.arguments) > 0
                                        THEN {server.arguments}
                                        ELSE @]]

\* sjson.DeleteBytes of mcpServers.<name>
DeleteServer(data, name) == [data EXCEPT !.servers[name] = NoEntry]

\* an entry of the map ListMCPServers returns; listed is FALSE for a name
\* that is not in the map
Unlisted == [listed |-> FALSE, command |-> "", arguments |-> <<>>]

Listed(entry) ==
    [listed |-> TRUE, command |-> entry.command,
     arguments |-> IF entry.args = {}
                   THEN <<>>
                   ELSE CHOOSE a \in entry.args : TRUE]

\* a listing of every entry
ListServersAll(data) ==
    [n \in MCPNames |->
        IF data.servers[n].present
        THEN Listed(data.servers[n])
        ELSE Unlisted]

\* the map ListMCPServers builds: the entries of type stdio
ListServers(data) ==
    [n \in MCPNames |->
        IF data.servers[n].present /\ data.servers[n].type = "stdio"
        THEN Listed(data.servers[n])
        ELSE Unlisted]

\* a call of the adapter and what it returned; unused fields keep these
\* values
NoCall ==
    [op |-> "none", name |-> "", given |-> {}, err |-> "",
     list |-> [n \in MCPNames |-> Unlisted]]

(***************************************************************************)
(* Execution store (internal/pkg/store/fs).  A write fails when the        *)
(* context it is given is done or when the filesystem reports a fault.     *)
(***************************************************************************)
StoreWriteOk(ctxDone, fault) == ~ctxDone /\ ~fault

\* status.json as written by Create
CreatedStatus(now) ==
    [state |-> ExecutionCreated, createdAt |-> now, updatedAt |-> now,
     finishedAt |-> {}, attempts |-> 0, exitCode |-> {}, error |-> {}]

\* an UpdateStatus that writes the status as it is given
UpdateStatusAsGiven(s, now) == s

\* status.json as written by UpdateStatus(s): s with updatedAt refreshed
UpdateStatus(s, now) == [s EXCEPT !.updatedAt = now]

\* status.json as written by SetResult over the stored status
SetResultStatus(stored, now) ==
    [stored EXCEPT !.state = ExecutionSucceeded, !.finishedAt = {now},
                   !.updatedAt = now]

(***************************************************************************)
(* Runtime events (internal/pkg/runtime/*/instance.go)                     *)
(***************************************************************************)
\* the kinds of the two lifecycle events
RuntimeStarted == "runtime-started"

RuntimeFinished == "runtime-finished"

\* an events channel without a buffer
EventsCapUnbuffered(kind) == 0

\* a channel with room for one event
EventsCapOne(kind) == 1

\* capacity of the events channel made by newInstance
EventsCap(kind) == IF kind = "codex" THEN 2 ELSE 10

\* emitRuntimeEvent: a non-blocking send; the event is dropped when the buffer
\* is full
emitRuntimeEvent(buf, cap, ev) ==
    IF Len(buf) < cap THEN Append(buf, ev) ELSE buf

\* the events the channel has accepted, after an emit of ev on buffer buf
Accepted(hist, buf, cap, ev) ==
    IF Len(buf) < cap THEN Append(hist, ev) ELSE hist

(***************************************************************************)
(* Runner (internal/app/briefkit-runner/app.go)                            *)
(***************************************************************************)
\* a guard that, with --retry, accepts every state
StateGuardRetryAny(state, retryFlag) ==
    IF state # ExecutionCreated /\ ~retryFlag
    THEN "execution state is"
    ELSE "ok"

\* a guard that accepts terminal states also without --retry
StateGuardNoFlag(state, retryFlag) ==
    IF state # ExecutionCreated
    THEN IF state # ExecutionFailed /\ state # ExecutionSucceeded
         THEN IF retryFlag
              THEN "execution state must be created, failed, or succeeded to retry"
              ELSE "execution state is"
         ELSE "ok"
    ELSE "ok"

\* the state guard of Run: "ok", or the error it returns
StateGuard(state, retryFlag) ==
    IF state # ExecutionCreated
    THEN IF ~retryFlag
         THEN "execution state is"
         ELSE IF state # ExecutionFailed /\ state # ExecutionSucceeded
              THEN "execution state must be created, failed, or succeeded to retry"
              ELSE "ok"
    ELSE "ok"

\* a started transition that keeps error and exitCode
StartedStatusKeepError(s) ==
    [s EXCEPT !.state = ExecutionStarted, !.attempts = s.attempts + 1]

\* a started transition that does not count the attempt
StartedStatusNoCount(s) ==
    [s EXCEPT !.state = ExecutionStarted, !.error = {}, !.exitCode = {}]

\* the status written by the started transition
StartedStatus(s) ==
    [s EXCEPT !.state = ExecutionStarted, !.attempts = s.attempts + 1,
              !.error = {}, !.exitCode = {}]

\* the status written by the running transition
RunningStatus(s) == [s EXCEPT !.state = ExecutionRunning]

\* the status finishExecutionWithError builds from its copy of the status
FailedStatus(s, err, now) ==
    [s EXCEPT !.state = ExecutionFailed, !.finishedAt = {now},
              !.error = {err.msg},
              !.exitCode = IF err.runtime THEN err.code ELSE {}]

\* a runner that returns nil once the failed status is persisted
AdapterFailureReturnNil(wrapped) == ""

\* what Run returns after finishExecutionWithError succeeded: the adapter's
\* error, wrapped ("execute runtime: ..." or "wait for runtime: ...")
AdapterFailureReturn(wrapped) == wrapped

\* the context Run gives UpdateStatus and SetResult (ctx, not runCtx)
WriteCtx == "parent"

\* finishExecutionWithError given the run context
FinishCtxRun == "run"

\* the context Run gives finishExecutionWithError (ctx, not runCtx)
FinishCtx == "parent"

\* whether a context of runner r is done; the parent context is never cancelled
CtxDone(c, r) == IF c = "run" THEN runCtx[r] = "done" ELSE FALSE

\* defer cancel(): runCtx is cancelled when Run returns
Cancelled(c) == IF c = "none" THEN "none" ELSE "done"

Idle(r) == pc[r] \in {"idle", "done"}

\* the session log files of newInstance, in the order they are created
SessionLogs == <<"stdin.log", "stdout.log", "stderr.log">>

\* the first n session log files
LogsCreated(n) == {SessionLogs[i] : i \in 1..n}

\* no event was emitted, no call deferred and no child reaped: no time is set
NoTimes == [started |-> {}, deferred |-> {}, reaped |-> {}, finished |-> {}]

\* no adapter has built an argument vector
NoArguments ==
    [kind |-> "none", features |-> [enableWebSearch |-> {},
                                    enableNetworkAccess |-> {}],
     model |-> {}, conversationId |-> {}, err |-> "", list |-> <<>>]

\* a new runner process takes the lowest process slot that is free
FreeSlot(r) == Idle(r) /\ \A o \in Runners : o < r => ~Idle(o)

\* no other runner process is driving the execution
Exclusive(r) == \A o \in Runners \ {r} : Idle(o)

Init ==
    /\ exists = FALSE
    /\ status = NoStatus
    /\ resultFile = {}
    /\ agentKind = "none"
    /\ clock = 1
    /\ pc = [r \in Runners |-> "idle"]
    /\ retry = [r \in Runners |-> FALSE]
    /\ rstatus = [r \in Runners |-> NoStatus]
    /\ pendErr = [r \in Runners |-> NoErr]
    /\ retErr = [r \in Runners |-> ""]
    /\ runCtx = [r \in Runners |-> "none"]
    /\ sel = [r \in Runners |-> "none"]
    /\ child = [r \in Runners |-> "none"]
    /\ cexit = [r \in Runners |-> 0]
    /\ parseErr = [r \in Runners |-> FALSE]
    /\ done = [r \in Runners |-> FALSE]
    /\ ierr = [r \in Runners |-> NoErr]
    /\ iresult = [r \in Runners |-> ""]
    /\ wrote = [r \in Runners |-> 0]
    /\ fsFault = [r \in Runners |-> FALSE]
    /\ lastFailed = NoStatus
    /\ runs = 0
    /\ guardPassed = 0
    /\ startedRuns = 0
    /\ events = [r \in Runners |-> <<>>]
    /\ emitted = [r \in Runners |-> <<>>]
    /\ closes = [r \in Runners |-> 0]
    /\ irun = [r \in Runners |-> "none"]
    /\ drain = [r \in Runners |-> "none"]
    /\ spc = "idle"
    /\ sfe = "none"
    /\ sctx = "live"
    /\ sret = NoReturn
    /\ released = FALSE
    /\ root = [n \in Names |-> "absent"]
    /\ execs = [id \in Names |-> NoFiles]
    /\ ret = NoRet
    /\ issued = {}
    /\ given = [id \in Names |-> {}]
    /\ setLog = [id \in Names |-> <<>>]
    /\ agents = "none"
    /\ inputFile = {}
    /\ cfile = NoConfigFile
    /\ ctmp = "absent"
    /\ cret = NoCall
    /\ okind = "none"
    /\ stdout = <<>>
    /\ scanPos = 0
    /\ oresult = ZeroResult
    /\ watchRet = "running"
    /\ logsOpen = [r \in Runners |-> {}]
    /\ elapsed = [r \in Runners |-> 0]
    /\ evAt = [r \in Runners |-> NoTimes]
    /\ built = NoArguments

\* ExecutionRepository.Create with a valid input
Create(kind, input) ==
    /\ ~exists
    /\ exists' = TRUE
    /\ status' = CreatedStatus(clock)
    /\ resultFile' = {}
    /\ agentKind' = kind
    /\ inputFile' = {EncodeInput(input)}
    /\ clock' = clock + 1
    /\ UNCHANGED <<pc, retry, rstatus, pendErr, retErr, runCtx, sel, wrote,
                   runs, guardPassed, startedRuns>>
    /\ UNCHANGED instVars
    /\ UNCHANGED fsFault
    /\ UNCHANGED lastFailed
    /\ UNCHANGED evVars
    /\ UNCHANGED subVars
    /\ UNCHANGED repoVars
    /\ UNCHANGED claudeVars
    /\ UNCHANGED watchVars
    /\ UNCHANGED sessVars
    /\ UNCHANGED agents

\* Run, lines 25-52: a new runner process loads the execution, its input and
\* its status, and applies the state guard
RunGetStatus(r, retryFlag) ==
    /\ FreeSlot(r)
    /\ runs < MaxRuns
    /\ runs' = runs + 1
    /\ retry' = [retry EXCEPT ![r] = retryFlag]
    /\ pendErr' = [pendErr EXCEPT ![r] = NoErr]
    /\ runCtx' = [runCtx EXCEPT ![r] = "none"]
    /\ sel' = [sel EXCEPT ![r] = "none"]
    /\ child' = [child EXCEPT ![r] = "none"]
    /\ cexit' = [cexit EXCEPT ![r] = 0]
    /\ parseErr' = [parseErr EXCEPT ![r] = FALSE]
    /\ done' = [done EXCEPT ![r] = FALSE]
    /\ ierr' = [ierr EXCEPT ![r] = NoErr]
    /\ iresult' = [iresult EXCEPT ![r] = ""]
    /\ wrote' = [wrote EXCEPT ![r] = 0]
    /\ fsFault' = [fsFault EXCEPT ![r] = FALSE]
    /\ IF ~exists
       THEN /\ pc' = [pc EXCEPT ![r] = "done"]
            /\ retErr' = [retErr EXCEPT ![r] = "get execution"]
            /\ rstatus' = [rstatus EXCEPT ![r] = NoStatus]
            /\ UNCHANGED guardPassed
       ELSE /\ rstatus' = [rstatus EXCEPT ![r] = status]
            /\ IF StateGuard(status.state, retryFlag) = "ok"
               THEN /\ pc' = [pc EXCEPT ![r] = "config"]
                    /\ retErr' = [retErr EXCEPT ![r] = ""]
                    /\ guardPassed' = guardPassed + 1
               ELSE /\ pc' = [pc EXCEPT ![r] = "done"]
                    /\ retErr' = [retErr EXCEPT ![r] =
                                     StateGuard(status.state, retryFlag)]
                    /\ UNCHANGED guardPassed
    /\ events' = [events EXCEPT ![r] = <<>>]
    /\ emitted' = [emitted EXCEPT ![r] = <<>>]
    /\ closes' = [closes EXCEPT ![r] = 0]
    /\ irun' = [irun EXCEPT ![r] = "none"]
    /\ drain' = [drain EXCEPT ![r] = "none"]
    /\ UNCHANGED <<clock, startedRuns>>
    /\ UNCHANGED storeVars
    /\ UNCHANGED lastFailed
    /\ UNCHANGED subVars
    /\ UNCHANGED repoVars
    /\ UNCHANGED claudeVars
    /\ UNCHANGED watchVars
    /\ logsOpen' = [logsOpen EXCEPT ![r] = {}]
    /\ elapsed' = [elapsed EXCEPT ![r] = 0]
    /\ evAt' = [evAt EXCEPT ![r] = NoTimes]
    /\ UNCHANGED built
    /\ UNCHANGED snapVars

\* Run, lines 54-67: the agent config snapshot, the registry lookup and runCtx
RunGetRuntime(r) ==
    /\ pc[r] = "config"
    /\ IF agentKind \in RegisteredKinds
       THEN /\ pc' = [pc EXCEPT ![r] = "start"]
            /\ runCtx' = [runCtx EXCEPT ![r] = "live"]
            /\ UNCHANGED retErr
       ELSE /\ pc' = [pc EXCEPT ![r] = "done"]
            /\ retErr' = [retErr EXCEPT ![r] = "get runtime"]
            /\ UNCHANGED runCtx
    /\ UNCHANGED <<clock, retry, rstatus, pendErr, sel, wrote, runs,
                   guardPassed, startedRuns>>
    /\ UNCHANGED storeVars
    /\ UNCHANGED instVars
    /\ UNCHANGED fsFault
    /\ UNCHANGED lastFailed
    /\ UNCHANGED evVars
    /\ UNCHANGED subVars
    /\ UNCHANGED repoVars
    /\ UNCHANGED claudeVars
    /\ UNCHANGED watchVars
    /\ UNCHANGED sessVars
    /\ UNCHANGED snapVars

\* Run, lines 69-75: the started transition
RunUpdateStarted(r, fault) ==
    /\ pc[r] = "start"
    /\ fsFault' = [fsFault EXCEPT ![r] = fsFault[r] \/ fault]
    /\ rstatus' = [rstatus EXCEPT ![r] = StartedStatus(rstatus[r])]
    /\ IF StoreWriteOk(CtxDone(WriteCtx, r), fault)
       THEN /\ status' = UpdateStatus(StartedStatus(rstatus[r]), clock)
            /\ clock' = clock + 1
            /\ wrote' = [wrote EXCEPT ![r] = wrote[r] + 1]
            /\ startedRuns' = startedRuns + 1
            /\ pc' = [pc EXCEPT ![r] = "execute"]
            /\ UNCHANGED <<retErr, runCtx>>
       ELSE /\ pc' = [pc EXCEPT ![r] = "done"]
            /\ retErr' = [retErr EXCEPT ![r] = "update execution status"]
            /\ runCtx' = [runCtx EXCEPT ![r] = Cancelled(runCtx[r])]
            /\ UNCHANGED <<status, clock, wrote, startedRuns>>
    /\ UNCHANGED <<exists, resultFile, agentKind, retry, pendErr, sel, runs,
                   guardPassed>>
    /\ UNCHANGED instVars
    /\ UNCHANGED lastFailed
    /\ UNCHANGED evVars
    /\ UNCHANGED subVars
    /\ UNCHANGED repoVars
    /\ UNCHANGED claudeVars
    /\ UNCHANGED watchVars
    /\ UNCHANGED sessVars
    /\ UNCHANGED snapVars

\* context.WithTimeout: the run deadline expires; a Wait blocked in its select
\* is woken on the ctx.Done() case
DeadlineExpire(r) ==
    /\ runCtx[r] = "live"
    /\ runCtx' = [runCtx EXCEPT ![r] = "done"]
    /\ IF pc[r] = "blocked"
       THEN /\ pc' = [pc EXCEPT ![r] = "waitret"]
            /\ sel' = [sel EXCEPT ![r] = "ctx"]
       ELSE UNCHANGED <<pc, sel>>
    /\ UNCHANGED <<clock, retry, rstatus, pendErr, retErr, wrote, runs,
                   guardPassed, startedRuns>>
    /\ UNCHANGED storeVars
    /\ UNCHANGED instVars
    /\ UNCHANGED fsFault
    /\ UNCHANGED lastFailed
    /\ UNCHANGED evVars
    /\ UNCHANGED subVars
    /\ UNCHANGED repoVars
    /\ UNCHANGED claudeVars
    /\ UNCHANGED watchVars
    /\ UNCHANGED sessVars
    /\ UNCHANGED snapVars

\* Run, lines 77-83: runtime.Execute(runCtx, ...), i.e. newInstance: on a
\* successful cmd.Start() it emits runtime-started on the fresh events channel
\* and starts the Instance.run goroutine
RunExecute(r, spawnOk) ==
    /\ pc[r] = "execute"
    /\ IF runCtx[r] = "done"
       THEN /\ pendErr' = [pendErr EXCEPT ![r] = PlainErr(DeadlineMsg)]
            /\ retErr' = [retErr EXCEPT ![r] =
                             AdapterFailureReturn("execute runtime")]
            /\ pc' = [pc EXCEPT ![r] = "finish"]
            /\ UNCHANGED <<child, events, emitted, irun>>
       ELSE IF ~spawnOk
       THEN /\ pendErr' = [pendErr EXCEPT ![r] = PlainErr("start child")]
            /\ retErr' = [retErr EXCEPT ![r] =
                             AdapterFailureReturn("execute runtime")]
            /\ pc' = [pc EXCEPT ![r] = "finish"]
            /\ UNCHANGED <<child, events, emitted, irun>>
       ELSE /\ child' = [child EXCEPT ![r] = "running"]
            /\ pc' = [pc EXCEPT ![r] = "running"]
            /\ events' = [events EXCEPT ![r] =
                             emitRuntimeEvent(<<>>, EventsCap(agentKind),
                                              RuntimeStarted)]
            /\ emitted' = [emitted EXCEPT ![r] =
                               Accepted(<<>>, <<>>, EventsCap(agentKind),
                                        RuntimeStarted)]
            /\ irun' = [irun EXCEPT ![r] = "watch"]
            /\ UNCHANGED <<pendErr, retErr>>
    /\ UNCHANGED <<clock, retry, rstatus, runCtx, sel, wrote, runs,
                   guardPassed, startedRuns>>
    /\ UNCHANGED <<cexit, parseErr, done, ierr, iresult>>
    /\ UNCHANGED storeVars
    /\ UNCHANGED fsFault
    /\ UNCHANGED lastFailed
    /\ UNCHANGED <<closes, drain>>
    /\ UNCHANGED subVars
    /\ UNCHANGED repoVars
    /\ UNCHANGED claudeVars
    /\ UNCHANGED watchVars
    /\ IF runCtx[r] = "done"
       THEN UNCHANGED sessVars
       ELSE IF ~spawnOk
       THEN /\ \E n \in 0..Len(SessionLogs) :
                  logsOpen' = [logsOpen EXCEPT ![r] = LogsCreated(n)]
            /\ UNCHANGED <<elapsed, evAt, built>>
       ELSE /\ logsOpen' = [logsOpen EXCEPT ![r] =
                               LogsCreated(Len(SessionLogs))]
            /\ evAt' = [evAt EXCEPT ![r] =
                           [started |-> {elapsed[r]},
                            deferred |-> {elapsed[r]},
                            reaped |-> {}, finished |-> {}]]
            /\ UNCHANGED <<elapsed, built>>
    /\ UNCHANGED snapVars

\* Run, lines 85-91: the running transition, then the drainRuntimeEvents
\* goroutine is started
RunUpdateRunning(r, fault) ==
    /\ pc[r] = "running"
    /\ fsFault' = [fsFault EXCEPT ![r] = fsFault[r] \/ fault]
    /\ rstatus' = [rstatus EXCEPT ![r] = RunningStatus(rstatus[r])]
    /\ IF StoreWriteOk(CtxDone(WriteCtx, r), fault)
       THEN /\ status' = UpdateStatus(RunningStatus(rstatus[r]), clock)
            /\ clock' = clock + 1
            /\ wrote' = [wrote EXCEPT ![r] = wrote[r] + 1]
            /\ pc' = [pc EXCEPT ![r] = "wait"]
            /\ drain' = [drain EXCEPT ![r] = "live"]
            /\ UNCHANGED <<retErr, runCtx>>
       ELSE /\ pc' = [pc EXCEPT ![r] = "done"]
            /\ retErr' = [retErr EXCEPT ![r] = "update execution status"]
            /\ runCtx' = [runCtx EXCEPT ![r] = Cancelled(runCtx[r])]
            /\ UNCHANGED <<status, clock, wrote, drain>>
    /\ UNCHANGED <<exists, resultFile, agentKind, retry, pendErr, sel, runs,
                   guardPassed, startedRuns>>
    /\ UNCHANGED instVars
    /\ UNCHANGED lastFailed
    /\ UNCHANGED <<events, emitted, closes, irun>>
    /\ UNCHANGED subVars
    /\ UNCHANGED repoVars
    /\ UNCHANGED claudeVars
    /\ UNCHANGED watchVars
    /\ UNCHANGED sessVars
    /\ UNCHANGED snapVars

\* the cases of the select in Instance.Wait that are ready
ReadyCases(r) ==
    {c \in {"done", "ctx"} : \/ c = "done" /\ done[r]
                             \/ c = "ctx" /\ runCtx[r] = "done"}

\* Run, line 93, Instance.Wait: the select takes one of the ready cases, or
\* blocks when none is ready
RunWaitEnter(r) ==
    /\ pc[r] = "wait"
    /\ IF ReadyCases(r) = {}
       THEN /\ pc' = [pc EXCEPT ![r] = "blocked"]
            /\ UNCHANGED sel
       ELSE /\ \E c \in ReadyCases(r) : sel' = [sel EXCEPT ![r] = c]
            /\ pc' = [pc EXCEPT ![r] = "waitret"]
    /\ UNCHANGED <<clock, retry, rstatus, pendErr, retErr, runCtx, wrote,
                   runs, guardPassed, startedRuns>>
    /\ UNCHANGED storeVars
    /\ UNCHANGED instVars
    /\ UNCHANGED fsFault
    /\ UNCHANGED lastFailed
    /\ UNCHANGED evVars
    /\ UNCHANGED subVars
    /\ UNCHANGED repoVars
    /\ UNCHANGED claudeVars
    /\ UNCHANGED watchVars
    /\ UNCHANGED sessVars
    /\ UNCHANGED snapVars

\* what Instance.Wait returns as its error for the case taken
WaitErr(r) == IF sel[r] = "ctx" THEN PlainErr(DeadlineMsg) ELSE ierr[r]

\* Run, lines 93-100: Wait returns
RunWaitReturn(r) ==
    /\ pc[r] = "waitret"
    /\ IF WaitErr(r) # NoErr
       THEN /\ pendErr' = [pendErr EXCEPT ![r] = WaitErr(r)]
            /\ retErr' = [retErr EXCEPT ![r] =
                             AdapterFailureReturn("wait for runtime")]
            /\ pc' = [pc EXCEPT ![r] = "finish"]
       ELSE /\ pc' = [pc EXCEPT ![r] = "setresult"]
            /\ UNCHANGED <<pendErr, retErr>>
    /\ UNCHANGED <<clock, retry, rstatus, runCtx, sel, wrote, runs,
                   guardPassed, startedRuns>>
    /\ UNCHANGED storeVars
    /\ UNCHANGED instVars
    /\ UNCHANGED fsFault
    /\ UNCHANGED lastFailed
    /\ UNCHANGED evVars
    /\ UNCHANGED subVars
    /\ UNCHANGED repoVars
    /\ UNCHANGED claudeVars
    /\ UNCHANGED watchVars
    /\ UNCHANGED sessVars
    /\ UNCHANGED snapVars

\* finishExecutionWithError, lines 115-134, and the return of Run after it
RunFinish(r, fault) ==
    /\ pc[r] = "finish"
    /\ fsFault' = [fsFault EXCEPT ![r] = fsFault[r] \/ fault]
    /\ IF StoreWriteOk(CtxDone(FinishCtx, r), fault)
       THEN /\ status' = UpdateStatus(FailedStatus(rstatus[r], pendErr[r], clock),
                                      clock)
            /\ lastFailed' = status'
            /\ clock' = clock + 1
            /\ wrote' = [wrote EXCEPT ![r] = wrote[r] + 1]
            /\ UNCHANGED retErr
       ELSE /\ retErr' = [retErr EXCEPT ![r] = "update execution status"]
            /\ UNCHANGED <<status, clock, wrote, lastFailed>>
    /\ pc' = [pc EXCEPT ![r] = "done"]
    /\ runCtx' = [runCtx EXCEPT ![r] = Cancelled(runCtx[r])]
    /\ UNCHANGED <<exists, resultFile, agentKind, retry, rstatus, pendErr, sel,
                   runs, guardPassed, startedRuns>>
    /\ UNCHANGED instVars
    /\ UNCHANGED evVars
    /\ UNCHANGED subVars
    /\ UNCHANGED repoVars
    /\ UNCHANGED claudeVars
    /\ UNCHANGED watchVars
    /\ UNCHANGED sessVars
    /\ UNCHANGED snapVars

\* Run, lines 102-113: SetResult and the return of Run
RunSetResult(r, fault) ==
    /\ pc[r] = "setresult"
    /\ fsFault' = [fsFault EXCEPT ![r] = fsFault[r] \/ fault]
    /\ IF StoreWriteOk(CtxDone(WriteCtx, r), fault)
       THEN /\ resultFile' = {iresult[r]}
            /\ status' = SetResultStatus(status, clock)
            /\ clock' = clock + 1
            /\ wrote' = [wrote EXCEPT ![r] = wrote[r] + 1]
            /\ UNCHANGED retErr
       ELSE /\ retErr' = [retErr EXCEPT ![r] = "set execution result"]
            /\ UNCHANGED <<status, resultFile, clock, wrote>>
    /\ pc' = [pc EXCEPT ![r] = "done"]
    /\ runCtx' = [runCtx EXCEPT ![r] = Cancelled(runCtx[r])]
    /\ UNCHANGED <<exists, agentKind, retry, rstatus, pendErr, sel, runs,
                   guardPassed, startedRuns>>
    /\ UNCHANGED instVars
    /\ UNCHANGED lastFailed
    /\ UNCHANGED evVars
    /\ UNCHANGED subVars
    /\ UNCHANGED repoVars
    /\ UNCHANGED claudeVars
    /\ UNCHANGED watchVars
    /\ UNCHANGED sessVars
    /\ UNCHANGED snapVars

(***************************************************************************)
(* Runtime instance (internal/pkg/runtime/*/instance.go)                   *)
(***************************************************************************)
\* the child exits on its own with code c, after the scanner parsed resp
ChildExit(r, c, resp) ==
    /\ child[r] = "running"
    /\ child' = [child EXCEPT ![r] = "exited"]
    /\ cexit' = [cexit EXCEPT ![r] = c]
    /\ iresult' = [iresult EXCEPT ![r] = resp]
    /\ UNCHANGED <<parseErr, done, ierr>>
    /\ UNCHANGED <<clock, pc, retry, rstatus, pendErr, retErr, runCtx, sel,
                   wrote, runs, guardPassed, startedRuns>>
    /\ UNCHANGED storeVars
    /\ UNCHANGED fsFault
    /\ UNCHANGED lastFailed
    /\ UNCHANGED evVars
    /\ UNCHANGED subVars
    /\ UNCHANGED repoVars
    /\ UNCHANGED claudeVars
    /\ UNCHANGED watchVars
    /\ elapsed' = [elapsed EXCEPT ![r] = elapsed[r] + 1]
    /\ UNCHANGED <<logsOpen, evAt, built>>
    /\ UNCHANGED snapVars

\* watch*Events: scanner.Err() is non-nil (a read error on the stdout pipe)
ScanError(r) ==
    /\ child[r] = "running"
    /\ ~parseErr[r]
    /\ parseErr' = [parseErr EXCEPT ![r] = TRUE]
    /\ UNCHANGED <<child, cexit, done, ierr, iresult>>
    /\ UNCHANGED <<clock, pc, retry, rstatus, pendErr, retErr, runCtx, sel,
                   wrote, runs, guardPassed, startedRuns>>
    /\ UNCHANGED storeVars
    /\ UNCHANGED fsFault
    /\ UNCHANGED lastFailed
    /\ UNCHANGED evVars
    /\ UNCHANGED subVars
    /\ UNCHANGED repoVars
    /\ UNCHANGED claudeVars
    /\ UNCHANGED watchVars
    /\ UNCHANGED sessVars
    /\ UNCHANGED snapVars

\* exec.CommandContext(ctx, ...): the child is killed once runCtx is done
KillChild(r) ==
    /\ child[r] = "running"
    /\ runCtx[r] = "done"
    /\ child' = [child EXCEPT ![r] = "exited"]
    /\ cexit' = [cexit EXCEPT ![r] = KilledExitCode]
    /\ UNCHANGED <<parseErr, done, ierr, iresult>>
    /\ UNCHANGED <<clock, pc, retry, rstatus, pendErr, retErr, runCtx, sel,
                   wrote, runs, guardPassed, startedRuns>>
    /\ UNCHANGED storeVars
    /\ UNCHANGED fsFault
    /\ UNCHANGED lastFailed
    /\ UNCHANGED evVars
    /\ UNCHANGED subVars
    /\ UNCHANGED repoVars
    /\ UNCHANGED claudeVars
    /\ UNCHANGED watchVars
    /\ elapsed' = [elapsed EXCEPT ![r] = elapsed[r] + 1]
    /\ UNCHANGED <<logsOpen, evAt, built>>
    /\ UNCHANGED snapVars

\* Instance.runtimeError: the error built from a non-nil cmd.Wait() error
RuntimeError(code) == [msg |-> "exit status", runtime |-> TRUE, code |-> {code}]

\* Instance.run, lines 152-170: instance.err from parseErr and waitErr
InstanceErr(parse, code) ==
    IF parse
    THEN [msg |-> "read output", runtime |-> TRUE, code |-> {}]
    ELSE IF code # 0 THEN RuntimeError(code) ELSE NoErr

\* Instance.run, line 145: `defer instance.emitRuntimeEvent(
\* agent.RuntimeFinishedEvent{Timestamp: time.Now()})`; the argument of a
\* deferred call is evaluated when the defer statement is executed
FinishedTimestamp(atDefer, atReturn) == atDefer

\* a run task that does not wait for the child
ReapedNoWait(r) == TRUE

\* Instance.run, lines 152-158: the scanner has returned at the end of the
\* child's stdout and cmd.Wait() has returned
Reaped(r) == child[r] = "exited"

\* a send that waits until the consumer has taken what was sent before
EmitProceedsWhenTaken(buf, cap) == buf = <<>>

\* emitRuntimeEvent, lines 260-265: the select has a default case, so the
\* send never waits
EmitProceeds(buf, cap) == TRUE

\* Instance.run, lines 142-170: the scanner has returned, cmd.Wait() has
\* reaped the child and instance.err is set; the deferred calls then run in
\* reverse order, first the log closers and the runtime-finished emit
InstanceRun(r) ==
    /\ irun[r] = "watch"
    /\ Reaped(r)
    /\ EmitProceeds(events[r], EventsCap(agentKind))
    /\ ierr' = [ierr EXCEPT ![r] = InstanceErr(parseErr[r], cexit[r])]
    /\ events' = [events EXCEPT ![r] =
                     emitRuntimeEvent(events[r], EventsCap(agentKind),
                                      RuntimeFinished)]
    /\ emitted' = [emitted EXCEPT ![r] =
                       Accepted(emitted[r], events[r], EventsCap(agentKind),
                                RuntimeFinished)]
    /\ irun' = [irun EXCEPT ![r] = "emitted"]
    /\ UNCHANGED <<child, cexit, parseErr, iresult, done>>
    /\ UNCHANGED <<clock, pc, sel, retry, rstatus, pendErr, retErr, runCtx,
                   wrote, runs, guardPassed, startedRuns>>
    /\ UNCHANGED storeVars
    /\ UNCHANGED fsFault
    /\ UNCHANGED lastFailed
    /\ UNCHANGED <<closes, drain>>
    /\ UNCHANGED subVars
    /\ UNCHANGED repoVars
    /\ UNCHANGED claudeVars
    /\ UNCHANGED watchVars
    /\ logsOpen' = [logsOpen EXCEPT ![r] = {}]
    /\ evAt' = [evAt EXCEPT ![r] =
                   [evAt[r] EXCEPT !.reaped = {elapsed[r]},
                                   !.finished = FinishedTimestamp(
                                                    evAt[r].deferred,
                                                    {elapsed[r]})]]
    /\ UNCHANGED <<elapsed, built>>
    /\ UNCHANGED snapVars

\* Instance.run, line 144: the deferred close(instance.events)
InstanceCloseEvents(r) ==
    /\ irun[r] = "emitted"
    /\ closes' = [closes EXCEPT ![r] = closes[r] + 1]
    /\ irun' = [irun EXCEPT ![r] = "closed"]
    /\ UNCHANGED <<clock, pc, sel, retry, rstatus, pendErr, retErr, runCtx,
                   wrote, runs, guardPassed, startedRuns>>
    /\ UNCHANGED storeVars
    /\ UNCHANGED instVars
    /\ UNCHANGED fsFault
    /\ UNCHANGED lastFailed
    /\ UNCHANGED <<events, emitted, drain>>
    /\ UNCHANGED subVars
    /\ UNCHANGED repoVars
    /\ UNCHANGED claudeVars
    /\ UNCHANGED watchVars
    /\ UNCHANGED sessVars
    /\ UNCHANGED snapVars

\* Instance.run, line 143: the deferred close(instance.done); a Wait blocked
\* in its select is woken on the done case
InstanceCloseDone(r) ==
    /\ irun[r] = "closed"
    /\ irun' = [irun EXCEPT ![r] = "returned"]
    /\ done' = [done EXCEPT ![r] = TRUE]
    /\ IF pc[r] = "blocked"
       THEN /\ pc' = [pc EXCEPT ![r] = "waitret"]
            /\ sel' = [sel EXCEPT ![r] = "done"]
       ELSE UNCHANGED <<pc, sel>>
    /\ UNCHANGED <<child, cexit, parseErr, ierr, iresult>>
    /\ UNCHANGED <<clock, retry, rstatus, pendErr, retErr, runCtx, wrote,
                   runs, guardPassed, startedRuns>>
    /\ UNCHANGED storeVars
    /\ UNCHANGED fsFault
    /\ UNCHANGED lastFailed
    /\ UNCHANGED <<events, emitted, closes, drain>>
    /\ UNCHANGED subVars
    /\ UNCHANGED repoVars
    /\ UNCHANGED claudeVars
    /\ UNCHANGED watchVars
    /\ UNCHANGED sessVars
    /\ UNCHANGED snapVars

\* drainRuntimeEvents, lines 136-147: the select receives an event
DrainReceive(r) ==
    /\ drain[r] = "live"
    /\ events[r] # <<>>
    /\ events' = [events EXCEPT ![r] = Tail(events[r])]
    /\ UNCHANGED <<clock, pc, sel, retry, rstatus, pendErr, retErr, runCtx,
                   wrote, runs, guardPassed, startedRuns>>
    /\ UNCHANGED storeVars
    /\ UNCHANGED instVars
    /\ UNCHANGED fsFault
    /\ UNCHANGED lastFailed
    /\ UNCHANGED <<emitted, closes, irun, drain>>
    /\ UNCHANGED subVars
    /\ UNCHANGED repoVars
    /\ UNCHANGED claudeVars
    /\ UNCHANGED watchVars
    /\ UNCHANGED sessVars
    /\ UNCHANGED snapVars

\* drainRuntimeEvents returns: its context is done, or the channel is closed
\* and empty
DrainReturn(r) ==
    /\ drain[r] = "live"
    /\ \/ runCtx[r] = "done"
       \/ closes[r] > 0 /\ events[r] = <<>>
    /\ drain' = [drain EXCEPT ![r] = "returned"]
    /\ UNCHANGED <<clock, pc, sel, retry, rstatus, pendErr, retErr, runCtx,
                   wrote, runs, guardPassed, startedRuns>>
    /\ UNCHANGED storeVars
    /\ UNCHANGED instVars
    /\ UNCHANGED fsFault
    /\ UNCHANGED lastFailed
    /\ UNCHANGED <<events, emitted, closes, irun>>
    /\ UNCHANGED subVars
    /\ UNCHANGED repoVars
    /\ UNCHANGED claudeVars
    /\ UNCHANGED watchVars
    /\ UNCHANGED sessVars
    /\ UNCHANGED snapVars

(***************************************************************************)
(* Submitter (briefkitctl ExecCmd.Run / waitForCompletion, and the handler *)
(* of the briefkit-mcp exec tool)                                          *)
(***************************************************************************)
FrontEnds == {"cli", "mcp"}

\* a store read fails when its context is done or the filesystem faults
StoreReadOk(ctxDone, fault) == ~ctxDone /\ ~fault

\* ctx.Err() of the submitter's context
CtxErr(c) ==
    IF c = "deadline" THEN DeadlineMsg
    ELSE IF c = "cancelled" THEN "context canceled" ELSE ""

\* ExecCmd.Run polls under context.WithTimeout(ctx, Timeout + 30 s); the MCP
\* handler polls under the context of the request
HasPollDeadline(fe) == fe = "cli"

\* a cancellation that kills the spawned runner whatever became of its handle
KillReachesAlways(handleReleased) == TRUE

\* the Process.Kill of os/exec's context watcher reaches the runner only while
\* its process handle has not been released
KillReaches(handleReleased) == ~handleReleased

\* a poll that refreshes status.json
SubmitterFrameTouch ==
    /\ status' = UpdateStatus(status, clock)
    /\ UNCHANGED <<exists, resultFile, agentKind>>

\* the submitter calls Get, GetStatus and GetResult only: the store is left as
\* it is
SubmitterFrame == UNCHANGED storeVars

\* what the poll returns once it has read the status st (and, on succeeded,
\* the result file res)
Outcome(fe, st, res, resultReadOk) ==
    IF st.state = ExecutionSucceeded
    THEN IF res = {} \/ ~resultReadOk
         THEN [out |-> "get result", seen |-> st.state, resp |-> {},
               err |-> IF res = {} THEN {ErrExecutionNoResult}
                       ELSE {"read result"},
               code |-> {}]
         ELSE [out |-> "result", seen |-> st.state, resp |-> res,
               err |-> {}, code |-> {}]
    ELSE [out |-> "execution failed", seen |-> st.state, resp |-> {},
          err |-> IF st.error = {} /\ fe = "cli" THEN {"unknown error"}
                  ELSE st.error,
          code |-> IF fe = "mcp" THEN st.exitCode ELSE {}]

\* a return that is not the outcome of a terminal status
ErrReturn(what, seenState, msg) ==
    [out |-> what, seen |-> seenState, resp |-> {}, err |-> msg, code |-> {}]

\* the runner process r is killed: its goroutines end with it, its child is
\* orphaned
Killed(r) ==
    /\ pc' = [pc EXCEPT ![r] = "done"]
    /\ retErr' = [retErr EXCEPT ![r] = "signal: killed"]
    /\ runCtx' = [runCtx EXCEPT ![r] = "none"]
    /\ irun' = [irun EXCEPT ![r] = "dead"]
    /\ drain' = [drain EXCEPT ![r] = "dead"]
    /\ UNCHANGED <<retry, rstatus, pendErr, sel, wrote, fsFault, guardPassed,
                   startedRuns>>
    /\ UNCHANGED <<events, emitted, closes>>

\* Spawn, spawn.go: the runner process is started in a new session and its
\* handle is released
Spawn(fe, ok) ==
    /\ spc = "idle"
    /\ exists
    /\ sfe' = fe
    /\ IF ok /\ sctx = "live"
       THEN /\ spc' = "get"
            /\ released' = TRUE
            /\ UNCHANGED sret
       ELSE /\ spc' = "returned"
            /\ sret' = ErrReturn("spawn runner", "", {})
            /\ UNCHANGED released
    /\ UNCHANGED sctx
    /\ UNCHANGED <<clock, lastFailed>>
    /\ UNCHANGED runVars
    /\ UNCHANGED storeVars
    /\ UNCHANGED instVars
    /\ UNCHANGED evVars
    /\ UNCHANGED repoVars
    /\ UNCHANGED claudeVars
    /\ UNCHANGED watchVars
    /\ UNCHANGED sessVars
    /\ UNCHANGED snapVars

\* repo.Get before the poll loop
PollGet(fault) ==
    /\ spc = "get"
    /\ IF StoreReadOk(sctx # "live", fault)
       THEN spc' = "poll" /\ UNCHANGED sret
       ELSE /\ spc' = "returned"
            /\ sret' = ErrReturn("get execution", "", {})
    /\ SubmitterFrame
    /\ UNCHANGED <<sfe, sctx, released>>
    /\ UNCHANGED <<clock, lastFailed>>
    /\ UNCHANGED runVars
    /\ UNCHANGED instVars
    /\ UNCHANGED evVars
    /\ UNCHANGED repoVars
    /\ UNCHANGED claudeVars
    /\ UNCHANGED watchVars
    /\ UNCHANGED sessVars
    /\ UNCHANGED snapVars

\* the ticker case of the poll loop: GetStatus and, on succeeded, GetResult
PollTick(fault, resultFault) ==
    /\ spc = "poll"
    /\ IF ~StoreReadOk(sctx # "live", fault)
       THEN IF sfe = "cli"
            THEN UNCHANGED <<spc, sret>>
            ELSE /\ spc' = "returned"
                 /\ sret' = ErrReturn("failed to get execution status", "", {})
       ELSE IF IsFinished(status.state)
            THEN /\ spc' = "returned"
                 /\ sret' = Outcome(sfe, status, resultFile,
                                    StoreReadOk(sctx # "live", resultFault))
            ELSE UNCHANGED <<spc, sret>>
    /\ SubmitterFrame
    /\ UNCHANGED <<sfe, sctx, released>>
    /\ UNCHANGED <<clock, lastFailed>>
    /\ UNCHANGED runVars
    /\ UNCHANGED instVars
    /\ UNCHANGED evVars
    /\ UNCHANGED repoVars
    /\ UNCHANGED claudeVars
    /\ UNCHANGED watchVars
    /\ UNCHANGED sessVars
    /\ UNCHANGED snapVars

\* the ctx.Done() case of the poll loop; the MCP handler wraps the nil err of
\* its enclosing scope instead of ctx.Err()
PollCtxDone ==
    /\ spc = "poll"
    /\ sctx # "live"
    /\ spc' = "returned"
    /\ sret' = ErrReturn("wait for completion", "",
                         IF sfe = "cli" THEN {CtxErr(sctx)} ELSE {})
    /\ SubmitterFrame
    /\ UNCHANGED <<sfe, sctx, released>>
    /\ UNCHANGED <<clock, lastFailed>>
    /\ UNCHANGED runVars
    /\ UNCHANGED instVars
    /\ UNCHANGED evVars
    /\ UNCHANGED repoVars
    /\ UNCHANGED claudeVars
    /\ UNCHANGED watchVars
    /\ UNCHANGED sessVars
    /\ UNCHANGED snapVars

\* the deadline of pollCtx (Timeout + 30 s) expires
PollDeadline ==
    /\ spc \in {"get", "poll"}
    /\ HasPollDeadline(sfe)
    /\ sctx = "live"
    /\ sctx' = "deadline"
    /\ UNCHANGED <<spc, sfe, sret, released>>
    /\ UNCHANGED <<clock, lastFailed>>
    /\ UNCHANGED runVars
    /\ UNCHANGED storeVars
    /\ UNCHANGED instVars
    /\ UNCHANGED evVars
    /\ UNCHANGED repoVars
    /\ UNCHANGED claudeVars
    /\ UNCHANGED watchVars
    /\ UNCHANGED sessVars
    /\ UNCHANGED snapVars

\* the caller cancels the submitter's context after Spawn has returned; the
\* context watcher of exec.CommandContext then calls Process.Kill
SubmitterCancel ==
    /\ spc \in {"get", "poll"}
    /\ sctx = "live"
    /\ sctx' = "cancelled"
    /\ IF KillReaches(released) /\ \E r \in Runners : ~Idle(r)
       THEN /\ \E r \in Runners : ~Idle(r) /\ Killed(r)
            /\ UNCHANGED runs
       ELSE /\ UNCHANGED runVars
            /\ UNCHANGED evVars
    /\ UNCHANGED <<spc, sfe, sret, released>>
    /\ UNCHANGED <<clock, lastFailed>>
    /\ UNCHANGED storeVars
    /\ UNCHANGED instVars
    /\ UNCHANGED repoVars
    /\ UNCHANGED claudeVars
    /\ UNCHANGED watchVars
    /\ UNCHANGED sessVars
    /\ UNCHANGED snapVars

\* the runner process dies (is killed from outside) before its first step or
\* at any later point of Run
RunnerDie(r) ==
    /\ released
    /\ \/ ~Idle(r) /\ UNCHANGED runs
       \/ runs = 0 /\ FreeSlot(r) /\ runs' = runs + 1
    /\ Killed(r)
    /\ UNCHANGED subVars
    /\ UNCHANGED <<clock, lastFailed>>
    /\ UNCHANGED storeVars
    /\ UNCHANGED instVars
    /\ UNCHANGED repoVars
    /\ UNCHANGED claudeVars
    /\ UNCHANGED watchVars
    /\ UNCHANGED sessVars
    /\ UNCHANGED snapVars

\* the runner process started by Spawn: briefkit-runner <id>, without --retry
SpawnedRun(r) ==
    /\ released
    /\ runs = 0
    /\ RunGetStatus(r, FALSE)

(***************************************************************************)
(* Execution repository (internal/pkg/store/fs): Create, Exists, Get, Find *)
(***************************************************************************)
pipelineVars ==
    <<runVars, instVars, evVars, subVars, storeVars, lastFailed, snapVars,
      claudeVars, watchVars, sessVars>>

\* the files Create writes into the new execution directory
CreatedFiles(input, agentConfig, now) ==
    [input |-> {EncodeInput(input)}, config |-> {agentConfig},
     status |-> {CreatedStatus(now)}, result |-> {}]

\* entries of the store root that were not made by Create
Foreign == {n \in Names : root[n] # "absent" /\ n \notin issued}

\* an identifier source that can return any name
NewExecutionIDAnyName == Names

\* NewExecutionID: the values ExecutionID(uuid.NewString()) can take
NewExecutionID == UUIDs

\* ExecutionRepository.Create: validation, then a new UUID, the directory and
\* its three files
RepositoryCreate(input, agentConfig) ==
    /\ Cardinality(issued) < MaxCreates
    /\ IF ExecutionInputValidate(input) # ""
       THEN /\ ret' = [NoRet EXCEPT !.op = "Create", !.given = {input},
                                    !.err = ExecutionInputValidate(input)]
            /\ UNCHANGED <<root, execs, issued, given, setLog, clock>>
       ELSE \E id \in NewExecutionID :
               /\ root[id] = "absent"
               /\ root' = [root EXCEPT ![id] = "dir"]
               /\ execs' = [execs EXCEPT ![id] =
                               CreatedFiles(input, agentConfig, clock)]
               /\ issued' = issued \cup {id}
               /\ given' = [given EXCEPT ![id] = {<<input, agentConfig>>}]
               /\ ret' = [NoRet EXCEPT !.op = "Create", !.given = {input},
                                       !.id = id]
               /\ clock' = clock + 1
               /\ UNCHANGED setLog
    /\ UNCHANGED pipelineVars

\* a directory is made in the store root from outside the repository
EnvMkdir(n) ==
    /\ root[n] = "absent"
    /\ Cardinality(Foreign) < MaxForeign
    /\ root' = [root EXCEPT ![n] = "dir"]
    /\ UNCHANGED <<execs, ret, issued, given, setLog, clock>>
    /\ UNCHANGED pipelineVars

\* a file is written into the store root from outside the repository
EnvWriteFile(n) ==
    /\ root[n] = "absent"
    /\ Cardinality(Foreign) < MaxForeign
    /\ root' = [root EXCEPT ![n] = "file"]
    /\ UNCHANGED <<execs, ret, issued, given, setLog, clock>>
    /\ UNCHANGED pipelineVars

\* the execution directory of id exists
DirExists(id) == id \in Names /\ root[id] = "dir"

\* ExecutionRepository.Exists
RepositoryExists(id) ==
    /\ ret' = [NoRet EXCEPT !.op = "Exists", !.arg = id,
                            !.err = ExecutionIDValidate(id),
                            !.found = /\ ExecutionIDValidate(id) = ""
                                      /\ DirExists(id)]
    /\ UNCHANGED <<root, execs, issued, given, setLog, clock>>
    /\ UNCHANGED pipelineVars

\* ExecutionRepository.Get, and GetInput and GetAgentConfig of the handle
RepositoryGet(id) ==
    /\ ret' =
          IF ExecutionIDValidate(id) # ""
          THEN [NoRet EXCEPT !.op = "Get", !.arg = id,
                             !.err = ExecutionIDValidate(id)]
          ELSE IF ~DirExists(id)
          THEN [NoRet EXCEPT !.op = "Get", !.arg = id,
                             !.err = ErrExecutionNotFound]
          ELSE [NoRet EXCEPT !.op = "Get", !.arg = id, !.found = TRUE,
                             !.input = {DecodeInput(j) : j \in execs[id].input},
                             !.config = execs[id].config]
    /\ UNCHANGED <<root, execs, issued, given, setLog, clock>>
    /\ UNCHANGED pipelineVars

\* Find keeps the directory entries whose name is a valid UUID
KeepEntry(n) == root[n] = "dir" /\ ExecutionIDValidate(n) = ""

\* the identifiers of a set, ascending
RECURSIVE SortIds(_)
SortIds(S) ==
    IF S = {}
    THEN <<>>
    ELSE LET least == CHOOSE x \in S : \A y \in S : x <= y
         IN  <<least>> \o SortIds(S \ {least})

\* what Find returns for the store root as it is
FindResult ==
    SortIds({n \in Names : root[n] # "absent" /\ KeepEntry(n)})

\* ExecutionRepository.Find without filters
RepositoryFind ==
    /\ ret' = [NoRet EXCEPT !.op = "Find", !.ids = FindResult]
    /\ UNCHANGED <<root, execs, issued, given, setLog, clock>>
    /\ UNCHANGED pipelineVars

(***************************************************************************)
(* Claude adapter: AddMCPServer, ListMCPServers, RemoveMCPServer           *)
(***************************************************************************)
notClaudeVars ==
    <<runVars, instVars, evVars, subVars, storeVars, lastFailed, snapVars,
      repoVars, clock, watchVars, sessVars>>

\* the user writes or removes the config file
UserEdit(file) ==
    /\ cfile' = file
    /\ cret' = NoCall
    /\ UNCHANGED ctmp
    /\ UNCHANGED notClaudeVars

\* a file <path>~ appears (an editor's backup) or is removed
UserTouchTemp(tmp) ==
    /\ ctmp' = tmp
    /\ cret' = NoCall
    /\ UNCHANGED cfile
    /\ UNCHANGED notClaudeVars

\* writeClaudeConfig called with data
WriteConfig(data, fault) ==
    /\ cfile' = writeClaudeConfig(cfile, ctmp, data, fault).file
    /\ ctmp' = writeClaudeConfig(cfile, ctmp, data, fault).tmp
    /\ cret' = [NoCall EXCEPT !.op = "Write", !.given = {data},
                              !.err = writeClaudeConfig(cfile, ctmp, data,
                                                        fault).err]
    /\ UNCHANGED notClaudeVars

\* Runtime.AddMCPServer
AddMCPServer(name, server, fault) ==
    /\ LET call == [NoCall EXCEPT !.op = "Add", !.name = name,
                                  !.given = {server}]
           read == readClaudeConfig(cfile, fault)
           written == writeClaudeConfig(cfile, ctmp,
                                        SetServer(read.data, name, server),
                                        fault)
       IN  IF ~server.stdio
           THEN /\ cret' = [call EXCEPT !.err =
                               "add mcp server: only STDIO servers are supported"]
                /\ UNCHANGED <<cfile, ctmp>>
           ELSE IF read.err # ""
           THEN /\ cret' = [call EXCEPT !.err = read.err]
                /\ UNCHANGED <<cfile, ctmp>>
           ELSE /\ cret' = [call EXCEPT !.err = written.err]
                /\ cfile' = written.file
                /\ ctmp' = written.tmp
    /\ UNCHANGED notClaudeVars

\* Runtime.ListMCPServers
ListMCPServers(fault) ==
    /\ LET call == [NoCall EXCEPT !.op = "List"]
           read == readClaudeConfig(cfile, fault)
       IN  IF read.err # ""
           THEN cret' = [call EXCEPT !.err = read.err]
           ELSE cret' = [call EXCEPT !.list = ListServers(read.data)]
    /\ UNCHANGED <<cfile, ctmp>>
    /\ UNCHANGED notClaudeVars

\* Runtime.RemoveMCPServer
RemoveMCPServer(name, fault) ==
    /\ LET call == [NoCall EXCEPT !.op = "Remove", !.name = name]
           read == readClaudeConfig(cfile, fault)
           written == writeClaudeConfig(cfile, ctmp,
                                        DeleteServer(read.data, name), fault)
       IN  IF read.err # ""
           THEN /\ cret' = [call EXCEPT !.err = read.err]
                /\ UNCHANGED <<cfile, ctmp>>
           ELSE IF ~read.data.servers[name].present
           THEN /\ cret' = [call EXCEPT !.err = ErrMCPServerNotFound]
                /\ UNCHANGED <<cfile, ctmp>>
           ELSE /\ cret' = [call EXCEPT !.err = written.err]
                /\ cfile' = written.file
                /\ ctmp' = written.tmp
    /\ UNCHANGED notClaudeVars

(***************************************************************************)
(* Execution handle (internal/pkg/store/fs): HasResult, GetResult,         *)
(* SetResult                                                               *)
(***************************************************************************)
\* Execution.HasResult of the files of an execution directory
HasResult(files) == files.result # {}

\* Execution.GetResult of the files of an execution directory
GetResult(files) ==
    IF files.result = {}
    THEN [err |-> ErrExecutionNoResult, result |-> {}]
    ELSE [err |-> "", result |-> files.result]

\* a SetResult that keeps a result that is already stored
SetResultFilesOnce(files, result, now) ==
    [files EXCEPT !.result = IF files.result = {} THEN {result} ELSE files.result,
                  !.status = {SetResultStatus(s, now) : s \in files.status}]

\* the files of an execution directory after SetResult(result)
SetResultFiles(files, result, now) ==
    [files EXCEPT !.result = {result},
                  !.status = {SetResultStatus(s, now) : s \in files.status}]

\* number of results stored so far
RECURSIVE SetResultCalls(_)
SetResultCalls(S) ==
    IF S = {}
    THEN 0
    ELSE LET n == CHOOSE x \in S : TRUE
         IN  Len(setLog[n]) + SetResultCalls(S \ {n})

\* HasResult on the handle Get returned for id
HandleHasResult(id) ==
    /\ DirExists(id)
    /\ ret' = [NoRet EXCEPT !.op = "HasResult", !.arg = id,
                            !.found = HasResult(execs[id])]
    /\ UNCHANGED <<root, execs, issued, given, setLog, clock>>
    /\ UNCHANGED pipelineVars

\* GetResult on the handle Get returned for id
HandleGetResult(id) ==
    /\ DirExists(id)
    /\ ret' = [NoRet EXCEPT !.op = "GetResult", !.arg = id,
                            !.err = GetResult(execs[id]).err,
                            !.result = GetResult(execs[id]).result]
    /\ UNCHANGED <<root, execs, issued, given, setLog, clock>>
    /\ UNCHANGED pipelineVars

\* SetResult(result) on the handle Get returned for id
HandleSetResult(id, result) ==
    /\ DirExists(id)
    /\ SetResultCalls(Names) < MaxSetResults
    /\ execs' = [execs EXCEPT ![id] = SetResultFiles(execs[id], result, clock)]
    /\ setLog' = [setLog EXCEPT ![id] = Append(setLog[id], result)]
    /\ clock' = clock + 1
    /\ ret' = [NoRet EXCEPT !.op = "SetResult", !.arg = id]
    /\ UNCHANGED <<root, issued, given>>
    /\ UNCHANGED pipelineVars

\* number of UpdateStatus writes made to the execution id, SetResult being
\* the only other write after Create
UpdateStatusCalls(id) ==
    IF execs[id].status = {}
    THEN 0
    ELSE LET s == CHOOSE x \in execs[id].status : TRUE
         IN  s.updatedAt - s.createdAt - Len(setLog[id])

\* GetStatus on the handle Get returned for id
HandleGetStatus(id) ==
    /\ DirExists(id)
    /\ ret' = [NoRet EXCEPT !.op = "GetStatus", !.arg = id,
                            !.status = execs[id].status]
    /\ UNCHANGED <<root, execs, issued, given, setLog, clock>>
    /\ UNCHANGED pipelineVars

\* UpdateStatus(s) on the handle Get returned for id
HandleUpdateStatus(id, s) ==
    /\ DirExists(id)
    /\ UpdateStatusCalls(id) < MaxUpdateStatus
    /\ execs' = [execs EXCEPT ![id].status = {UpdateStatus(s, clock)}]
    /\ clock' = clock + 1
    /\ ret' = [NoRet EXCEPT !.op = "UpdateStatus", !.arg = id, !.given = {s}]
    /\ UNCHANGED <<root, issued, given, setLog>>
    /\ UNCHANGED pipelineVars

Next ==
    \/ \E k \in Kinds : Create(k, ValidInput)
    \/ \E r \in Runners, f \in BOOLEAN : Exclusive(r) /\ RunGetStatus(r, f)
    \/ \E r \in Runners : RunGetRuntime(r)
    \/ \E r \in Runners, fault \in BOOLEAN : RunUpdateStarted(r, fault)
    \/ \E r \in Runners : DeadlineExpire(r)
    \/ \E r \in Runners, ok \in BOOLEAN : RunExecute(r, ok)
    \/ \E r \in Runners, fault \in BOOLEAN : RunUpdateRunning(r, fault)
    \/ \E r \in Runners : RunWaitEnter(r)
    \/ \E r \in Runners : RunWaitReturn(r)
    \/ \E r \in Runners, fault \in BOOLEAN : RunFinish(r, fault)
    \/ \E r \in Runners, fault \in BOOLEAN : RunSetResult(r, fault)
    \/ \E r \in Runners, c \in ExitCodes, resp \in Responses : ChildExit(r, c, resp)
    \/ \E r \in Runners : ScanError(r)
    \/ \E r \in Runners : KillChild(r)
    \/ \E r \in Runners : InstanceRun(r)
    \/ \E r \in Runners : InstanceCloseEvents(r)
    \/ \E r \in Runners : InstanceCloseDone(r)
    \/ \E r \in Runners : DrainReceive(r)
    \/ \E r \in Runners : DrainReturn(r)

Spec == Init /\ [][Next]_vars

\* one submission: Create, Spawn, the runner process it starts, and the poll
\* a config Update that also rewrites the snapshot of the execution
ConfigUpdateThrough(k) ==
    /\ agents' = k
    /\ agentKind' = IF exists THEN k ELSE agentKind
    /\ UNCHANGED <<exists, status, resultFile, inputFile, clock, lastFailed>>
    /\ UNCHANGED <<runVars, instVars, evVars, subVars, repoVars, claudeVars>>
    /\ UNCHANGED watchVars
    /\ UNCHANGED sessVars

\* ConfigRepository.Update of the agent's config (setup, agent discovery)
ConfigUpdate(k) ==
    /\ agents' = k
    /\ UNCHANGED <<inputFile, clock, lastFailed>>
    /\ UNCHANGED <<runVars, instVars, evVars, subVars, storeVars, repoVars,
                   claudeVars, watchVars, sessVars>>

\* ExecCmd.Run up to Create: the config of the agent is read from the agent
\* config repository and given to Create with the input
SubmitCreate(input) ==
    /\ spc = "idle"
    /\ agents # "none"
    /\ Create(agents, input)

\* Execution.GetInput and Execution.GetAgentConfig, {} when there is no
\* execution
GetInput == {DecodeInput(j) : j \in inputFile}

GetAgentConfig == IF exists THEN {agentKind} ELSE {}

\* one submission of an agent whose config is edited at any time
SnapshotNext ==
    \/ \E k \in Kinds : ConfigUpdate(k)
    \/ \E input \in {ValidInput, ValidInputAttached} : SubmitCreate(input)
    \/ \E fe \in FrontEnds : Spawn(fe, TRUE)
    \/ PollGet(FALSE)
    \/ \E rf \in BOOLEAN : PollTick(FALSE, rf)
    \/ PollCtxDone
    \/ PollDeadline
    \/ SubmitterCancel
    \/ \E r \in Runners : SpawnedRun(r)
    \/ \E r \in Runners : RunGetRuntime(r)
    \/ \E r \in Runners, fault \in BOOLEAN : RunUpdateStarted(r, fault)
    \/ \E r \in Runners : DeadlineExpire(r)
    \/ \E r \in Runners, ok \in BOOLEAN : RunExecute(r, ok)
    \/ \E r \in Runners : RunUpdateRunning(r, FALSE)
    \/ \E r \in Runners : RunWaitEnter(r)
    \/ \E r \in Runners : RunWaitReturn(r)
    \/ \E r \in Runners : RunFinish(r, FALSE)
    \/ \E r \in Runners : RunSetResult(r, FALSE)
    \/ \E r \in Runners, c \in ExitCodes, resp \in Responses : ChildExit(r, c, resp)
    \/ \E r \in Runners : KillChild(r)
    \/ \E r \in Runners : InstanceRun(r)
    \/ \E r \in Runners : InstanceCloseEvents(r)
    \/ \E r \in Runners : InstanceCloseDone(r)

SnapshotSpec == Init /\ [][SnapshotNext]_vars

\* the claude adapter alone: the user's config file, and the calls of setup
ClaudeNext ==
    \/ \E file \in UserFiles : UserEdit(file)
    \/ \E tmp \in {"absent", "present"} : UserTouchTemp(tmp)
    \/ \E data \in WrittenData, fault \in Faults : WriteConfig(data, fault)
    \/ \E server \in MCPServers, fault \in Faults :
          AddMCPServer(SetupName, server, fault)
    \/ \E fault \in Faults : ListMCPServers(fault)
    \/ \E fault \in Faults : RemoveMCPServer(SetupName, fault)

ClaudeSpec == Init /\ [][ClaudeNext]_vars

(***************************************************************************)
(* Runtime adapters: the child writes stdout, the instance's run task      *)
(* scans it line by line (watchClaudeEvents, watchCodexEvents,             *)
(* watchGeminiEvents).                                                     *)
(***************************************************************************)
notWatchVars ==
    <<runVars, instVars, evVars, subVars, storeVars, lastFailed, snapVars,
      repoVars, clock, claudeVars, sessVars>>

\* newInstance of the adapter of the kind; its child is started
NewInstance(kind) ==
    /\ okind = "none"
    /\ okind' = kind
    /\ UNCHANGED <<stdout, scanPos, oresult, watchRet>>
    /\ UNCHANGED notWatchVars

\* the child writes a line before it closes its stdout; what it writes
\* after the watcher has returned is discarded unread
ChildWrite(line) ==
    /\ okind # "none"
    /\ watchRet = "running"
    /\ Len(stdout) < MaxLines
    /\ line \in LinesOf(okind)
    /\ stdout' = Append(stdout, line)
    /\ UNCHANGED <<okind, scanPos, oresult, watchRet>>
    /\ UNCHANGED notWatchVars

\* scanner.Scan() delivers the next line, or fails on a line longer than
\* the token limit and the watcher returns the scanner's error
WatchScan ==
    /\ watchRet = "running"
    /\ scanPos < Len(stdout)
    /\ LET line == stdout[scanPos + 1]
       IN  IF line.form = "long"
           THEN /\ watchRet' = "token too long"
                /\ UNCHANGED <<scanPos, oresult>>
           ELSE /\ scanPos' = scanPos + 1
                /\ oresult' = watchLine(okind, oresult, line)
                /\ UNCHANGED watchRet
    /\ UNCHANGED <<okind, stdout>>
    /\ UNCHANGED notWatchVars

\* scanner.Scan() returns false: the child has closed its stdout and every
\* line is consumed, or the read of the pipe fails
WatchReturn(fault) ==
    /\ okind # "none"
    /\ watchRet = "running"
    /\ IF fault
       THEN watchRet' = "read error"
       ELSE /\ scanPos = Len(stdout)
            /\ watchRet' = "nil"
    /\ UNCHANGED <<okind, stdout, scanPos, oresult>>
    /\ UNCHANGED notWatchVars

WatchNext ==
    \/ \E kind \in WatchKinds : NewInstance(kind)
    \/ \E line \in LinesOf(okind) : ChildWrite(line)
    \/ WatchScan
    \/ \E fault \in BOOLEAN : WatchReturn(fault)

WatchSpec == Init /\ [][WatchNext]_vars

\* ExecutionInput.Validate called on an input
InputValidate(input) ==
    /\ ret' = [NoRet EXCEPT !.op = "Validate", !.given = {input},
                            !.err = ExecutionInputValidate(input)]
    /\ UNCHANGED <<root, execs, issued, given, setLog, clock>>
    /\ UNCHANGED pipelineVars

ValidateNext == \E input \in ValidateInputs : InputValidate(input)

ValidateSpec == Init /\ [][ValidateNext]_vars

SubmitNext ==
    \/ \E k \in Kinds : spc = "idle" /\ Create(k, ValidInput)
    \/ \E fe \in FrontEnds, ok \in BOOLEAN : Spawn(fe, ok)
    \/ \E fault \in BOOLEAN : PollGet(fault)
    \/ \E fault \in BOOLEAN, rf \in BOOLEAN : PollTick(fault, rf)
    \/ PollCtxDone
    \/ PollDeadline
    \/ SubmitterCancel
    \/ \E r \in Runners : RunnerDie(r)
    \/ \E r \in Runners : SpawnedRun(r)
    \/ \E r \in Runners : RunGetRuntime(r)
    \/ \E r \in Runners, fault \in BOOLEAN : RunUpdateStarted(r, fault)
    \/ \E r \in Runners : DeadlineExpire(r)
    \/ \E r \in Runners, ok \in BOOLEAN : RunExecute(r, ok)
    \/ \E r \in Runners, fault \in BOOLEAN : RunUpdateRunning(r, fault)
    \/ \E r \in Runners : RunWaitEnter(r)
    \/ \E r \in Runners : RunWaitReturn(r)
    \/ \E r \in Runners, fault \in BOOLEAN : RunFinish(r, fault)
    \/ \E r \in Runners, fault \in BOOLEAN : RunSetResult(r, fault)
    \/ \E r \in Runners, c \in ExitCodes, resp \in Responses : ChildExit(r, c, resp)
    \/ \E r \in Runners : ScanError(r)
    \/ \E r \in Runners : KillChild(r)
    \/ \E r \in Runners : InstanceRun(r)
    \/ \E r \in Runners : InstanceCloseEvents(r)
    \/ \E r \in Runners : InstanceCloseDone(r)
    \/ \E r \in Runners : DrainReceive(r)
    \/ \E r \in Runners : DrainReturn(r)

SubmitSpec == Init /\ [][SubmitNext]_vars

\* the goroutines of a live runner process are scheduled, the os/exec watcher
\* kills the child of a done context, the timer of pollCtx fires, and a poll
\* loop whose context is done takes the ctx.Done() case
SubmitLiveSpec ==
    /\ SubmitSpec
    /\ WF_vars(PollDeadline)
    /\ WF_vars(PollCtxDone)
    /\ \A r \in Runners :
          /\ WF_vars(\E fault \in BOOLEAN : RunUpdateStarted(r, fault))
          /\ WF_vars(\E ok \in BOOLEAN : RunExecute(r, ok))
          /\ WF_vars(\E fault \in BOOLEAN : RunUpdateRunning(r, fault))
          /\ WF_vars(RunWaitEnter(r))
          /\ WF_vars(RunWaitReturn(r))
          /\ WF_vars(\E fault \in BOOLEAN : RunFinish(r, fault))
          /\ WF_vars(\E fault \in BOOLEAN : RunSetResult(r, fault))
          /\ WF_vars(KillChild(r))
          /\ WF_vars(InstanceRun(r))
          /\ WF_vars(InstanceCloseEvents(r))
          /\ WF_vars(InstanceCloseDone(r))

(***************************************************************************)
(* Properties                                                              *)
(***************************************************************************)
GuardErrors ==
    {"execution state is",
     "execution state must be created, failed, or succeeded to retry"}

\* the state changes the state machine allows a runner (and Create) to persist
AllowedTransitions ==
    {<<"none", ExecutionCreated>>,
     <<ExecutionCreated, ExecutionStarted>>,
     <<ExecutionStarted, ExecutionRunning>>,
     <<ExecutionStarted, ExecutionFailed>>,
     <<ExecutionRunning, ExecutionSucceeded>>,
     <<ExecutionRunning, ExecutionFailed>>,
     <<ExecutionSucceeded, ExecutionStarted>>,
     <<ExecutionFailed, ExecutionStarted>>}

\* C1: with one runner at a time, every change of the persisted state is a step
\* of created -> started -> running -> (succeeded | failed), with started ->
\* failed allowed, and a terminal state goes back to started only in the
\* started transition of a runner that was given --retry.
C1_StateMonotonic ==
    [][status'.state # status.state =>
        /\ <<status.state, status'.state>> \in AllowedTransitions
        /\ IsFinished(status.state) =>
              \E r \in Runners : pc[r] = "start" /\ pc'[r] = "execute" /\ retry[r]
      ]_vars

\* a --retry run has reset a terminal state to started
C1_Witness ==
    /\ status.state = ExecutionStarted
    /\ status.attempts >= 2
    /\ status.finishedAt # {}

\* C4: a run that finds a state other than created returns an error, with no
\* store write and no adapter invocation, unless --retry was given and the
\* state is failed or succeeded, in which case it proceeds.
C4_GuardRejects ==
    [][\A r \in Runners :
          (runs' = runs + 1 /\ FreeSlot(r) /\ exists
             /\ status.state # ExecutionCreated) =>
          IF retry'[r] /\ IsFinished(status.state)
          THEN pc'[r] = "config" /\ retErr'[r] = ""
          ELSE /\ pc'[r] = "done"
               /\ retErr'[r] \in GuardErrors
               /\ wrote'[r] = 0
               /\ child'[r] = "none"
               /\ status' = status
               /\ resultFile' = resultFile
      ]_vars

\* a --retry run was refused because the state was started or running
C4_Witness ==
    \E r \in Runners :
        /\ pc[r] = "done"
        /\ retry[r]
        /\ retErr[r] = "execution state must be created, failed, or succeeded to retry"
        /\ status.state \in {ExecutionStarted, ExecutionRunning}
        /\ wrote[r] = 0

\* C2: in every store state, state = succeeded iff result.json exists, and
\* state = failed implies error is set (also during and after a --retry run
\* of a succeeded execution).
C2_TerminalClosure ==
    exists =>
        /\ (status.state = ExecutionSucceeded) <=> (resultFile # {})
        /\ status.state = ExecutionFailed => status.error # {}

\* C3: finishedAt is present iff the state is succeeded or failed.
C3_FinishedAtIffTerminal ==
    exists => ((status.finishedAt # {}) <=> IsFinished(status.state))

\* the run passed the state guard and Run has returned
ReturnedAfterGuard(r) ==
    /\ pc[r] = "done"
    /\ retErr[r] \notin GuardErrors \cup {"get execution"}

\* C5: whenever Run returns for an execution it was allowed to run, the
\* persisted state is terminal.
C5_TerminalOnEveryExit ==
    \A r \in Runners : ReturnedAfterGuard(r) => IsFinished(status.state)

\* the adapter failed in the run of r and r persisted the failed status
AdapterFailedAndPersisted(r) ==
    /\ pc[r] = "done"
    /\ pendErr[r] # NoErr
    /\ wrote[r] >= 2
    /\ status.state = ExecutionFailed

C7_AttemptsCountGuardPassed ==
    (exists /\ \A r \in Runners : Idle(r)) => status.attempts = guardPassed

\* C7 amended: the started transition writes attempts = persisted attempts + 1
\* with error and exitCode absent, no other step changes attempts, and attempts
\* equals the number of runs whose started status write succeeded.
C7_AttemptsCountStarted ==
    [][/\ \A r \in Runners :
            (pc[r] = "start" /\ pc'[r] = "execute") =>
                /\ status'.state = ExecutionStarted
                /\ status'.attempts = status.attempts + 1
                /\ status'.error = {}
                /\ status'.exitCode = {}
       /\ (exists /\ status'.attempts # status.attempts) =>
             \E r \in Runners : pc[r] = "start" /\ pc'[r] = "execute"
       /\ exists' => status'.attempts = startedRuns'
      ]_vars

\* a second started transition, over a failed status carrying an error
C7_Witness ==
    /\ status.state = ExecutionStarted
    /\ status.attempts = 2
    /\ lastFailed.error # {}
    /\ status.error = {}

\* C8: a succeeded status carries neither error nor exitCode.
C8_SucceededHasNoError ==
    status.state = ExecutionSucceeded =>
        status.error = {} /\ status.exitCode = {}

\* success reached by a --retry run after an attempt that failed with an error
\* and an exit code
C8_Witness ==
    /\ status.state = ExecutionSucceeded
    /\ status.attempts >= 2
    /\ lastFailed.error # {}
    /\ lastFailed.exitCode # {}

\* the failed status on disk was written by runner r, which has returned
WroteFailed(r) ==
    /\ pc[r] = "done"
    /\ retErr[r] \in {"execute runtime", "wait for runtime"}
    /\ status.state = ExecutionFailed

\* C9: in a failed status exitCode is present iff the child was spawned and
\* exited with a code: absent when Execute failed and when the failure is the
\* deadline observed in Wait, present whenever the child exited non-zero (also
\* when a stdout read error occurred in the same run).
C9_ExitCodeIffChildExited ==
    \A r \in Runners :
        WroteFailed(r) =>
            ((status.exitCode # {}) <=>
                (sel[r] = "done" /\ child[r] = "exited" /\ cexit[r] # 0))

\* C10: a deadline that expires while Wait is blocked on an unfinished child
\* makes Wait return the deadline error; when Wait returns it, the runner
\* persists failed with the deadline error (unless the filesystem faults), and
\* a child still running under the cancelled run context is terminated.
C10_DeadlineFails ==
    /\ [](\A r \in Runners :
            (pc[r] = "done" /\ sel[r] = "ctx" /\ ~fsFault[r]) =>
                /\ status.state = ExecutionFailed
                /\ status.error = {DeadlineMsg}
                /\ status.exitCode = {}
                /\ status.finishedAt # {}
                /\ retErr[r] = "wait for runtime")
    /\ [][\A r \in Runners :
             (pc[r] = "blocked" /\ ~done[r] /\ runCtx[r] = "live"
                /\ runCtx'[r] = "done") =>
                (sel'[r] = "ctx" /\ pc'[r] = "waitret")]_vars
    /\ \A r \in Runners :
          (runCtx[r] = "done" /\ child[r] = "running") ~> (child[r] # "running")

\* the deadline woke a Wait blocked on an unfinished child, and the runner
\* persisted the failed status
C10_Witness ==
    \E r \in Runners :
        /\ pc[r] = "done"
        /\ sel[r] = "ctx"
        /\ ~done[r]
        /\ child[r] = "running"
        /\ status.state = ExecutionFailed
        /\ status.error = {DeadlineMsg}

\* the repository alone: Create, Exists, Get, Find, and entries made in the
\* store root by others
StoreNext ==
    \/ \E input \in Inputs, k \in RegisteredKinds \ {"gemini"} :
          RepositoryCreate(input, k)
    \/ \E n \in Names : EnvMkdir(n)
    \/ \E n \in Names : EnvWriteFile(n)
    \/ \E id \in Names \cup {EmptyExecutionID} : RepositoryExists(id)
    \/ \E id \in Names \cup {EmptyExecutionID} : RepositoryGet(id)
    \/ RepositoryFind

StoreSpec == Init /\ [][StoreNext]_vars

\* one execution and its handle: Create, then HasResult, GetResult and
\* SetResult in any order
HandleNext ==
    \/ \E input \in {ValidInput, ValidInputAttached},
          k \in RegisteredKinds \ {"gemini"} :
          issued = {} /\ RepositoryCreate(input, k)
    \/ \E id \in issued : HandleHasResult(id)
    \/ \E id \in issued : HandleGetResult(id)
    \/ \E id \in issued, result \in Responses : HandleSetResult(id, result)

HandleSpec == Init /\ [][HandleNext]_vars

\* one execution and its handle: Create, then GetStatus, and UpdateStatus of
\* the status last read with any state put in, as the runner and the test
\* of the store do it
StatusNext ==
    \/ \E input \in {ValidInput, ValidInputAttached},
          k \in RegisteredKinds \ {"gemini"} :
          issued = {} /\ RepositoryCreate(input, k)
    \/ \E id \in issued : HandleGetStatus(id)
    \/ \E id \in issued, state \in ExecutionStates :
          /\ ret.op = "GetStatus"
          /\ ret.arg = id
          /\ \E s \in ret.status :
                HandleUpdateStatus(id, [s EXCEPT !.state = state])

StatusSpec == Init /\ [][StatusNext]_vars

\* C11: an instance that was created has put runtime-started on its events
\* channel; once Instance.run has reaped the child it has put exactly
\* runtime-started then runtime-finished; the channel is closed once, after
\* runtime-finished and before done; nothing is sent on the closed channel.
C11_EventStream ==
    /\ [](\A r \in Runners :
            /\ emitted[r] \in {<<>>, <<RuntimeStarted>>,
                               <<RuntimeStarted, RuntimeFinished>>}
            /\ irun[r] = "none" <=> emitted[r] = <<>>
            /\ irun[r] = "watch" => emitted[r] = <<RuntimeStarted>>
            /\ irun[r] \in {"emitted", "closed", "returned"} <=>
                  emitted[r] = <<RuntimeStarted, RuntimeFinished>>
            /\ RuntimeFinished \in {emitted[r][i] : i \in 1..Len(emitted[r])} =>
                  child[r] = "exited"
            /\ closes[r] = (IF irun[r] \in {"closed", "returned"} THEN 1 ELSE 0)
            /\ done[r] <=> irun[r] = "returned")
    /\ [][\A r \in Runners :
             Len(events'[r]) > Len(events[r]) => closes[r] = 0 /\ closes'[r] = 0
         ]_vars

\* a codex instance has emitted both events, closed its channel and closed
\* done, and the drain goroutine has received both events
C11_Witness ==
    \E r \in Runners :
        /\ agentKind = "codex"
        /\ done[r]
        /\ closes[r] = 1
        /\ emitted[r] = <<RuntimeStarted, RuntimeFinished>>
        /\ events[r] = <<>>
        /\ drain[r] = "returned"

\* C12: the submitter's Get, GetStatus and GetResult never change the store:
\* a step of the submitter after Create leaves status.json, result.json and
\* the input and agent-config snapshots as they are, and every change of
\* status or result after Create is a store write of a runner.
C12_SubmitterReadsOnly ==
    [][/\ subVars' # subVars => UNCHANGED storeVars
       /\ (exists /\ storeVars' # storeVars) =>
             /\ \E r \in Runners : wrote'[r] = wrote[r] + 1
             /\ UNCHANGED subVars
             /\ UNCHANGED <<exists, agentKind>>
      ]_vars

\* the poll has returned the result while the runner made its three writes
C12_Witness ==
    /\ spc = "returned"
    /\ sret.out = "result"
    /\ sret.resp = resultFile
    /\ \E r \in Runners : wrote[r] = 3

\* the poll loop has just returned
PollReturned == spc = "poll" /\ spc' = "returned"

\* C13: the poll loop returns only when it has observed a terminal state or
\* its context is done; having observed succeeded it never gets
\* ErrExecutionNoResult and returns the result the runner wrote; having
\* observed failed it returns an error built from status.error (and exitCode
\* in the MCP handler).
C13_PollReturns ==
    [][PollReturned =>
          /\ IsFinished(sret'.seen) \/ sctx # "live"
          /\ sret'.seen = ExecutionSucceeded =>
                /\ ErrExecutionNoResult \notin sret'.err
                /\ sret'.out = "result" => sret'.resp = resultFile
                /\ resultFile # {}
          /\ sret'.seen = ExecutionFailed =>
                /\ sret'.out = "execution failed"
                /\ status.error # {} => sret'.err = status.error
                /\ sfe = "mcp" => sret'.code = status.exitCode
      ]_vars

\* the runner process of the submission is dead
RunnerDead == \E r \in Runners : retErr[r] = "signal: killed"

\* C14: when the runner has died (or never ran) leaving a non-terminal state,
\* the poll loop of either front end eventually returns, and what it returns
\* when it was not cancelled is the timeout error.
C14_PollTimesOut ==
    /\ (spc = "poll" /\ RunnerDead /\ ~IsFinished(status.state)) ~>
          (spc = "returned")
    /\ [][(PollReturned /\ RunnerDead /\ ~IsFinished(status.state)
             /\ sctx # "cancelled" /\ sret'.out = "wait for completion") =>
             sret'.err = {DeadlineMsg}]_vars

\* C15: cancelling the submitter's context after Spawn returned changes
\* nothing of the runner, its instance or the store; and a runner whose child
\* has exited or whose run deadline has expired persists a terminal status,
\* unless the filesystem faults or the runner is killed from outside.
C15_CancelLeavesRunner ==
    /\ [][(sctx = "live" /\ sctx' = "cancelled") =>
             /\ UNCHANGED runVars
             /\ UNCHANGED instVars
             /\ UNCHANGED evVars
             /\ UNCHANGED storeVars]_vars
    /\ \A r \in Runners :
          (sctx = "cancelled" /\ (child[r] = "exited" \/ runCtx[r] = "done")) ~>
              (IsFinished(status.state) \/ fsFault[r] \/ RunnerDead)

\* the submitter was cancelled while the runner was waiting for its child, the
\* poll returned the cancellation, and the runner then persisted succeeded
C15_Witness ==
    /\ sctx = "cancelled"
    /\ sret.out = "wait for completion"
    /\ status.state = ExecutionSucceeded
    /\ \E r \in Runners : pc[r] = "done" /\ wrote[r] = 3 /\ sel[r] = "done"

\* the os/exec watcher kills the child once its context is done
LiveSpec == Spec /\ \A r \in Runners : WF_vars(KillChild(r))

\* the run task of an instance is a goroutine that is scheduled as long as
\* it can take a step
InstanceLiveSpec ==
    Spec /\ \A r \in Runners : /\ WF_vars(InstanceRun(r))
                               /\ WF_vars(InstanceCloseEvents(r))
                               /\ WF_vars(InstanceCloseDone(r))

\* a status as C16 requires of a new execution
C16_FreshStatus(s) ==
    /\ s.state = ExecutionCreated
    /\ s.attempts = 0
    /\ s.createdAt = s.updatedAt
    /\ s.finishedAt = {}
    /\ s.error = {}
    /\ s.exitCode = {}

\* C16: a Create that succeeds returns a valid UUID that no earlier Create
\* returned, and leaves a directory of that name holding input.json,
\* agent-config.json and status.json, without result.json, the status being
\* created, attempts 0, createdAt = updatedAt, no finishedAt, error, exitCode
C16_CreateWrites ==
    [][(ret' # ret /\ ret'.op = "Create" /\ ret'.err = "") =>
          /\ ExecutionIDValidate(ret'.id) = ""
          /\ ret'.id \notin issued
          /\ root[ret'.id] = "absent"
          /\ root'[ret'.id] = "dir"
          /\ Cardinality(execs'[ret'.id].input) = 1
          /\ Cardinality(execs'[ret'.id].config) = 1
          /\ Cardinality(execs'[ret'.id].status) = 1
          /\ execs'[ret'.id].result = {}
          /\ \A s \in execs'[ret'.id].status : C16_FreshStatus(s)]_vars

\* a second Create has succeeded, after the first one
C16_Witness ==
    /\ ret.op = "Create"
    /\ ret.err = ""
    /\ Cardinality(issued) = 2
    /\ ret.id \in issued
    /\ \A s \in execs[ret.id].status : s.createdAt > 0 /\ C16_FreshStatus(s)
    /\ execs[ret.id].status # {}

\* the sentinel ExecutionInput.Validate owes each invalid input
C17_Sentinel(input) ==
    IF input.prompt = <<" ">> THEN ErrExecutionPromptRequired
    ELSE IF input.timeout = 0 THEN ErrExecutionTimeoutRequired
    ELSE IF input.workingDirectory = {<<" ">>}
    THEN ErrExecutionWorkingDirectoryRequired
    ELSE IF input.workingDirectory = {<<"~", "u">>}
    THEN ErrExecutionWorkingDirectoryInvalid
    ELSE IF input.workingDirectory = {<<"a">>}
    THEN ErrExecutionWorkingDirectoryNotAbsolute
    ELSE IF input.attachments[1].mimeType = <<>>
    THEN ErrExecutionAttachmentMimeTypeRequired
    ELSE ErrExecutionAttachmentPathRequired

\* C17: a Create given an input that fails validation returns the empty id
\* and the sentinel of the failed check, and leaves the store root, what Find
\* returns and the files of every execution as they were
C17_InvalidCreateWritesNothing ==
    [][\A input \in InvalidInputs :
          (ret' # ret /\ ret'.op = "Create" /\ ret'.given = {input}) =>
             /\ ret'.id = EmptyExecutionID
             /\ ret'.err = C17_Sentinel(input)
             /\ root' = root
             /\ execs' = execs
             /\ FindResult' = FindResult]_vars

\* an invalid Create has returned while an execution and a foreign entry
\* are in the store
C17_Witness ==
    /\ ret.op = "Create"
    /\ ret.err = ErrExecutionWorkingDirectoryNotAbsolute
    /\ ret.id = EmptyExecutionID
    /\ issued # {}
    /\ Foreign # {}

C19_FindSorted ==
    /\ [](/\ \A i, j \in 1..Len(FindResult) :
               (i < j) => (FindResult[i] < FindResult[j])
          /\ {FindResult[k] : k \in 1..Len(FindResult)} =
                {n \in Names : n \in UUIDs /\ root[n] = "dir"}
          /\ ((\A n \in Names : root[n] = "absent") => (FindResult = <<>>)))
    /\ [][(ret' # ret /\ ret'.op = "Find") =>
             (ret'.ids = FindResult /\ root' = root /\ execs' = execs)]_vars

\* Find has returned two executions, the one created later first, and has
\* left out an entry that is in the store root
C19_Witness ==
    /\ ret.op = "Find"
    /\ ret.ids = <<1, 2>>
    /\ issued = {1, 2}
    /\ \E s \in execs[1].status, u \in execs[2].status :
          u.createdAt < s.createdAt
    /\ Foreign # {}

\* C20: while no SetResult has been made on an execution, HasResult is false
\* and GetResult returns ErrExecutionNoResult; afterwards HasResult is true
\* and GetResult returns the result of the last SetResult; a SetResult, the
\* first and every later one, leaves the state succeeded, finishedAt set and
\* updatedAt refreshed
C20_SetResultOverwrites ==
    /\ [](/\ ret.op = "HasResult" => (ret.found <=> setLog[ret.arg] # <<>>)
          /\ (ret.op = "GetResult" /\ setLog[ret.arg] = <<>>) =>
                (ret.err = ErrExecutionNoResult /\ ret.result = {})
          /\ (ret.op = "GetResult" /\ setLog[ret.arg] # <<>>) =>
                /\ ret.err = ""
                /\ ret.result = {setLog[ret.arg][Len(setLog[ret.arg])]})
    /\ [][setLog' # setLog =>
             /\ ret'.op = "SetResult"
             /\ ret'.err = ""
             /\ HasResult(execs'[ret'.arg])
             /\ GetResult(execs'[ret'.arg]).result =
                   {setLog'[ret'.arg][Len(setLog'[ret'.arg])]}
             /\ Cardinality(execs'[ret'.arg].status) = 1
             /\ \A s \in execs[ret'.arg].status, u \in execs'[ret'.arg].status :
                   /\ u.state = ExecutionSucceeded
                   /\ u.finishedAt # {}
                   /\ u.updatedAt = clock
                   /\ u.updatedAt > s.updatedAt
                   /\ u.createdAt = s.createdAt]_vars

\* GetResult has returned the second of two different results stored one
\* after the other
C20_Witness ==
    /\ ret.op = "GetResult"
    /\ ret.err = ""
    /\ ret.result = {"r2"}
    /\ setLog[ret.arg] = <<"r1", "r2">>
    /\ \A s \in execs[ret.arg].status : s.state = ExecutionSucceeded

\* C21: UpdateStatus stores the status it is given, whatever state was stored
\* before, with updatedAt moved to a time after the stored updatedAt, and the
\* GetStatus that follows returns the state that was written
C21_UpdateStatusUnchecked ==
    [][/\ (ret' # ret /\ ret'.op = "UpdateStatus") =>
             /\ ret'.err = ""
             /\ \A g \in ret'.given, s \in execs[ret'.arg].status :
                   /\ execs'[ret'.arg].status =
                         {[g EXCEPT !.updatedAt = clock]}
                   /\ clock > s.updatedAt
             /\ execs'[ret'.arg].input = execs[ret'.arg].input
             /\ execs'[ret'.arg].result = execs[ret'.arg].result
       /\ (ret.op = "UpdateStatus" /\ ret'.op = "GetStatus"
             /\ ret'.arg = ret.arg) =>
             {u.state : u \in ret'.status} = {g.state : g \in ret.given}]_vars

\* GetStatus returns running after one UpdateStatus made on a created
\* execution: the started state was skipped
C21_Witness ==
    /\ ret.op = "GetStatus"
    /\ \E u \in ret.status :
          /\ u.state = ExecutionRunning
          /\ u.attempts = 0
          /\ u.updatedAt = u.createdAt + 1

\* C22: once the execution is created, GetInput returns one input and no
\* step changes what GetInput and GetAgentConfig return: not the runner's
\* status and result writes, not the submitter's polls, not an Update of the
\* agent's config in the agent config repository
C22_SnapshotFrozen ==
    /\ [](exists => (Cardinality(GetInput) = 1 /\ GetInput \subseteq Inputs))
    /\ [][exists => (/\ exists'
                      /\ GetInput' = GetInput
                      /\ GetAgentConfig' = GetAgentConfig
                      /\ inputFile' = inputFile)]_vars

\* the execution has succeeded and the submitter has returned its result,
\* and the agent's config is no longer the one the execution was created with
C22_Witness ==
    /\ exists
    /\ status.state = ExecutionSucceeded
    /\ resultFile # {}
    /\ sret.out = "result"
    /\ agentKind = "codex"
    /\ agents = "claude"
    /\ GetInput = {ValidInputAttached}

\* C23: an AddMCPServer or RemoveMCPServer leaves the top-level keys other
\* than mcpServers and the entries of mcpServers under other names as they
\* were; a RemoveMCPServer that follows the AddMCPServer of the same name
\* leaves mcpServers without that name; RemoveMCPServer of a name that is not
\* in a readable file returns ErrMCPServerNotFound and changes no file
C23_ForeignFieldsKept ==
    [][/\ cret'.op \in {"Add", "Remove"} =>
             /\ cfile'.rest = cfile.rest
             /\ \A n \in MCPNames \ {cret'.name} :
                   cfile'.servers[n] = cfile.servers[n]
       /\ (/\ cret.op = "Add"
           /\ cret.err = ""
           /\ cret'.op = "Remove"
           /\ cret'.name = cret.name
           /\ cret'.err = "") =>
             /\ cfile.servers[cret.name].present
             /\ ~cfile'.servers[cret.name].present
       /\ (/\ cret'.op = "Remove"
           /\ cret' # cret
           /\ cfile.state # "invalid"
           /\ ~cfile.servers[cret'.name].present
           /\ cret'.err # "read config file") =>
             /\ cret'.err = ErrMCPServerNotFound
             /\ cfile' = cfile
             /\ ctmp' = ctmp]_vars

\* the server setup added has been removed again from a file that has
\* other top-level keys and an entry of the user
C23_Witness ==
    /\ cret.op = "Remove"
    /\ cret.err = ""
    /\ cfile.state = "json"
    /\ cfile.rest = "theme font_size telemetry"
    /\ cfile.servers["filesystem"] = StdioEntry
    /\ ~cfile.servers[SetupName].present
    /\ cfile.hasServers

\* C24: AddMCPServer of a server that is not STDIO returns an error and
\* changes no file; ListMCPServers of a readable file succeeds and returns
\* the entries whose type is stdio, and no other; an entry of another type
\* under another name is kept by AddMCPServer and RemoveMCPServer
C24_StdioOnly ==
    [][/\ (cret'.op = "Add" /\ cret' # cret /\ cret'.given = {OtherServer}) =>
             /\ cret'.err # ""
             /\ cfile' = cfile
             /\ ctmp' = ctmp
       /\ (/\ cret'.op = "List"
           /\ cret' # cret
           /\ cfile.state # "invalid"
           /\ cret'.err # "read config file") =>
             /\ cret'.err = ""
             /\ cfile' = cfile
             /\ \A n \in MCPNames :
                   /\ cret'.list[n].listed <=>
                         (cfile.servers[n].present
                            /\ cfile.servers[n].type = "stdio")
                   /\ cret'.list[n].listed =>
                         cret'.list[n].command = cfile.servers[n].command
       /\ cret'.op \in {"Add", "Remove"} =>
             \A n \in MCPNames \ {cret'.name} :
                (cfile.servers[n].present /\ cfile.servers[n].type # "stdio")
                   => cfile'.servers[n] = cfile.servers[n]]_vars

\* ListMCPServers has returned the server setup added and has left out the
\* sse entry of the user
C24_Witness ==
    /\ cret.op = "List"
    /\ cret.err = ""
    /\ cfile.servers["filesystem"] = SseEntry
    /\ ~cret.list["filesystem"].listed
    /\ cret.list[SetupName].listed
    /\ cret.list[SetupName].command = "briefkit-mcp"

\* C25: writeClaudeConfig fails and leaves the config file as it was when
\* the temp file exists, and when the write or the rename of the temp file
\* fails; when it succeeds the config file is the data it was given and the
\* temp file does not exist
C25_TempFileWrite ==
    [][(cret'.op = "Write" /\ cret' # cret) =>
          /\ ctmp # "absent" => cret'.err # ""
          /\ cret'.err # "" => cfile' = cfile
          /\ cret'.err = "" =>
                /\ cret'.given = {cfile'}
                /\ ctmp = "absent"
                /\ ctmp' = "absent"]_vars

\* writeClaudeConfig has refused to write over a temp file that exists,
\* the user's config file being in place
C25_Witness ==
    /\ cret.op = "Write"
    /\ cret.err = "temp file already exists"
    /\ ctmp = "present"
    /\ cfile.state = "json"
    /\ cfile.rest = "theme font_size telemetry"

\* the lines the scanner has delivered, and those of them that reached the
\* adapter's switch
Consumed == SubSeq(stdout, 1, scanPos)

Dispatched == SelectSeq(Consumed, LAMBDA l : l.form = "json")

\* the id of the last event of a sequence, "" when there is none
IdOfLast(evs) == IF evs = <<>> THEN "" ELSE evs[Len(evs)].id

RECURSIVE Concat(_)
Concat(texts) ==
    IF texts = <<>> THEN <<>> ELSE Head(texts) \o Concat(Tail(texts))

\* the texts of the type=text content elements of an assistant event
C26_AssistantText(e) ==
    Concat([i \in 1..Len(e.content) |->
              IF e.content[i].type = "text" THEN e.content[i].text ELSE <<>>])

\* the result of the last final event, then the assistant texts after it
C26_Response(evs, IsFinal(_)) ==
    LET finals == {i \in 1..Len(evs) : IsFinal(evs[i])}
        k == IF finals = {} THEN 0
             ELSE CHOOSE i \in finals : \A j \in finals : j <= i
    IN  (IF k = 0 THEN <<>> ELSE evs[k].text)
          \o Concat([i \in 1..(Len(evs) - k) |->
                       IF evs[k + i].type = "assistant"
                       THEN C26_AssistantText(evs[k + i])
                       ELSE <<>>])

C26_IsInit(e) == e.type = "system" /\ e.subtype = "init"

C26_IsSuccess(e) == e.type = "result" /\ e.subtype = "success"

\* C26 as stated: the conversation id of the claude adapter is the
\* session_id of the last system/init event, and the response is the result
\* of the last result/success event followed by the texts of the assistant
\* events after it
C26_LastInitAndResult ==
    okind = "claude" =>
       /\ oresult.conversationId =
             IdOfLast(SelectSeq(Dispatched, C26_IsInit))
       /\ oresult.response = C26_Response(Dispatched, C26_IsSuccess)

\* C26 amended: the conversation id of the claude adapter is the session_id
\* of the last system/init event whose session_id is not empty; the response
\* is the result of the last result/success event whose result is not empty
\* followed by the type=text texts, in order, of the assistant events after
\* it (of all assistant events when there is no such result event)
C26_ClaudeParsing ==
    okind = "claude" =>
       /\ oresult.conversationId =
             IdOfLast(SelectSeq(Dispatched,
                                LAMBDA e : C26_IsInit(e) /\ e.id # ""))
       /\ oresult.response =
             C26_Response(Dispatched,
                          LAMBDA e : C26_IsSuccess(e) /\ e.text # <<>>)

\* the claude watcher has returned after an init event, an assistant event
\* with text and tool_use elements, and a result event that replaced the
\* assistant's text
C26_Witness ==
    /\ okind = "claude"
    /\ watchRet = "nil"
    /\ Len(stdout) = 3
    /\ C26_IsInit(stdout[1])
    /\ stdout[2].type = "assistant" /\ Len(stdout[2].content) = 3
    /\ C26_IsSuccess(stdout[3])
    /\ oresult = [response |-> <<"r">>, conversationId |-> "s1"]

C27_IsAgentMessage(e) ==
    e.type = "item.completed" /\ e.role = "agent_message"

C27_TextOfLast(evs) == IF evs = <<>> THEN <<>> ELSE evs[Len(evs)].text

\* C27 as stated: the conversation id of the codex adapter is the thread_id
\* of the last thread.started event and the response is the item.text of the
\* last item.completed event whose item.type is agent_message
C27_LastThreadAndMessage ==
    okind = "codex" =>
       /\ oresult.conversationId =
             IdOfLast(SelectSeq(Dispatched,
                                LAMBDA e : e.type = "thread.started"))
       /\ oresult.response =
             C27_TextOfLast(SelectSeq(Dispatched, C27_IsAgentMessage))

\* C27 amended: the conversation id of the codex adapter is the thread_id of
\* the last thread.started event whose thread_id is not empty; the response
\* is the item.text of the last item.completed event whose item.type is
\* agent_message; events of other types change neither
C27_CodexParsing ==
    okind = "codex" =>
       /\ oresult.conversationId =
             IdOfLast(SelectSeq(Dispatched,
                                LAMBDA e : e.type = "thread.started"
                                             /\ e.id # ""))
       /\ oresult.response =
             C27_TextOfLast(SelectSeq(Dispatched, C27_IsAgentMessage))

\* the codex watcher has returned after two agent messages and an event of
\* another type that carries a text: the response is the second message
C27_Witness ==
    /\ okind = "codex"
    /\ watchRet = "nil"
    /\ Len(stdout) = 3
    /\ C27_IsAgentMessage(stdout[1]) /\ stdout[1].text = <<"a">>
    /\ C27_IsAgentMessage(stdout[2]) /\ stdout[2].text = <<"b">>
    /\ stdout[3].type = "turn.completed"
    /\ oresult = [response |-> <<"b">>, conversationId |-> ""]

C28_AssistantContents(evs) ==
    Concat([i \in 1..Len(evs) |->
              IF evs[i].type = "message" /\ evs[i].role = "assistant"
              THEN evs[i].text
              ELSE <<>>])

\* C28 as stated: the conversation id of the gemini adapter is the
\* session_id of the last init event and the response is the contents of the
\* message events of role assistant, joined in stream order
C28_LastInitAndContents ==
    okind = "gemini" =>
       /\ oresult.conversationId =
             IdOfLast(SelectSeq(Dispatched, LAMBDA e : e.type = "init"))
       /\ oresult.response = C28_AssistantContents(Dispatched)

\* C28 amended: the conversation id of the gemini adapter is the session_id
\* of the last init event whose session_id is not empty; the response is the
\* contents of the message events of role assistant, joined in stream
\* order; messages of another role and other events change neither
C28_GeminiParsing ==
    okind = "gemini" =>
       /\ oresult.conversationId =
             IdOfLast(SelectSeq(Dispatched,
                                LAMBDA e : e.type = "init" /\ e.id # ""))
       /\ oresult.response = C28_AssistantContents(Dispatched)

\* the gemini watcher has returned after an assistant message, a user
\* message and another assistant message: the response is the two assistant
\* contents in order
C28_Witness ==
    /\ okind = "gemini"
    /\ watchRet = "nil"
    /\ Len(stdout) = 3
    /\ stdout[2].type = "message" /\ stdout[2].role = "user"
    /\ oresult = [response |-> <<"b", "a">>, conversationId |-> ""]

\* the result of the adapter's switch over a sequence of event lines
RECURSIVE C29_ParseEvents(_, _, _)
C29_ParseEvents(kind, res, evs) ==
    IF evs = <<>>
    THEN res
    ELSE C29_ParseEvents(kind, watchLine(kind, res, Head(evs)), Tail(evs))

C29_EventLines(lines) == SelectSeq(lines, LAMBDA l : l.form = "json")

\* C29: for each adapter no line of stdout makes the watcher fail, the
\* result after any number of lines is the result of parsing the well-formed
\* JSON event lines among them, and when the watcher has returned at the end
\* of the stream the result is that of the event lines of the whole stream
C29_NonJSONTolerated ==
    okind # "none" =>
       /\ watchRet \in {"running", "nil", "read error"}
       /\ oresult =
             C29_ParseEvents(okind, ZeroResult, C29_EventLines(Consumed))
       /\ watchRet = "nil" =>
             oresult =
                C29_ParseEvents(okind, ZeroResult, C29_EventLines(stdout))

\* a string with nothing but white space
C30_Blank(s) == \A i \in 1..Len(s) : s[i] = " "

C30_BadAttachments(input) ==
    {i \in 1..Len(input.attachments) :
        C30_Blank(input.attachments[i].mimeType)
           \/ C30_Blank(input.attachments[i].path)}

\* the sentinel the checks give in their order, "" when all of them pass
C30_Expected(input) ==
    LET dirs == input.workingDirectory
        bad == C30_BadAttachments(input)
        first == CHOOSE i \in bad : \A j \in bad : i <= j
    IN  IF C30_Blank(input.prompt) THEN ErrExecutionPromptRequired
        ELSE IF ~(input.timeout > 0) THEN ErrExecutionTimeoutRequired
        ELSE IF \E d \in dirs : C30_Blank(d)
        THEN ErrExecutionWorkingDirectoryRequired
        ELSE IF \E d \in dirs : Head(d) = "~" /\ Len(d) > 1 /\ d[2] # "/"
        THEN ErrExecutionWorkingDirectoryInvalid
        ELSE IF \E d \in dirs : Head(d) \notin {"/", "~"}
        THEN ErrExecutionWorkingDirectoryNotAbsolute
        ELSE IF bad = {} THEN ""
        ELSE IF C30_Blank(input.attachments[first].mimeType)
        THEN ErrExecutionAttachmentMimeTypeRequired
        ELSE ErrExecutionAttachmentPathRequired

\* C30: ExecutionInput.Validate returns nil exactly when the prompt is not
\* blank, the timeout is positive, the working directory is absent or is not
\* blank and absolute after home expansion, and no attachment has a blank
\* mimeType or path; otherwise it returns the sentinel of the first failing
\* check in the order prompt, timeout, working directory (required, invalid,
\* not absolute), attachments in list order with mimeType before path
C30_ValidateOrder ==
    ret.op = "Validate" =>
       \A input \in ret.given :
          /\ ret.err = C30_Expected(input)
          /\ ret.err = "" <=>
                /\ ~C30_Blank(input.prompt)
                /\ input.timeout > 0
                /\ \A d \in input.workingDirectory :
                      ~C30_Blank(d) /\ Head(d) \in {"/", "~"}
                         /\ ~(Head(d) = "~" /\ Len(d) > 1 /\ d[2] # "/")
                /\ C30_BadAttachments(input) = {}

\* Validate has returned the mimeType sentinel of the second attachment for
\* an input whose first attachment is valid and whose other fields pass
C30_Witness ==
    /\ ret.op = "Validate"
    /\ ret.err = ErrExecutionAttachmentMimeTypeRequired
    /\ \E input \in ret.given :
          /\ Len(input.attachments) = 2
          /\ ~C30_Blank(input.attachments[1].mimeType)
          /\ input.workingDirectory = {<<"~", "/", "x">>}

\* C31: done is closed only after the scanner has returned and cmd.Wait has
\* reaped the child, that is after Instance.run has finished; Wait returns
\* the instance's result only on its done case, with done closed; and once
\* done is closed the result and the error of the instance are written no
\* more
C31_WaitAfterDone ==
    /\ [](\A r \in Runners :
            /\ done[r] => (irun[r] = "returned" /\ child[r] = "exited")
            /\ (pc[r] = "waitret" /\ sel[r] = "done") => done[r])
    /\ [][\A r \in Runners :
             (done[r] /\ done'[r]) =>
                (iresult'[r] = iresult[r] /\ ierr'[r] = ierr[r])]_vars

\* Wait has returned the response the scanner parsed, on its done case, and
\* the runner is about to store it
C31_Witness ==
    \E r \in Runners :
        /\ pc[r] = "setresult"
        /\ sel[r] = "done"
        /\ done[r]
        /\ child[r] = "exited"
        /\ iresult[r] = "r1"

\* C32: once the child of an instance has exited, the run task of the
\* instance emits runtime-finished without waiting, closes the events
\* channel and closes done, whether or not anything reads the events; the
\* only other end is that of the runner process, after which a new process
\* starts from no instance
C32_RunCompletes ==
    \A r \in Runners :
       (irun[r] = "watch" /\ child[r] = "exited")
          ~> ((done[r] /\ closes[r] = 1) \/ irun[r] = "none")

\* the run task of an instance has finished although no drain task was ever
\* started: both events are still in the buffer
C32_Witness ==
    \E r \in Runners :
        /\ done[r]
        /\ closes[r] = 1
        /\ drain[r] = "none"
        /\ events[r] = <<RuntimeStarted, RuntimeFinished>>


\* C33: the session log files opened for an execution are closed on every
\* path: none is open once the run task has passed the reap (so none is open
\* when runtime-finished is emitted or done is closed), and none is open when
\* newInstance has returned an error
C33_LogsClosed ==
    \A r \in Runners : irun[r] # "watch" => logsOpen[r] = {}

\* the half of C33 that the code keeps: after the reap the files are closed
C33_ClosedAfterReap ==
    \A r \in Runners :
       irun[r] \in {"emitted", "closed", "returned"} => logsOpen[r] = {}

C33_Witness ==
    \E r \in Runners :
       /\ irun[r] = "returned"
       /\ done[r]
       /\ logsOpen[r] = {}
       /\ RuntimeFinished \in {events[r][i] : i \in DOMAIN events[r]}


\* C40: the timestamp of an instance's runtime-finished event is not earlier
\* than the time at which the scan had ended and the child was reaped, hence
\* not earlier than the runtime-started timestamp plus the child's run time
C40_FinishedAtReap ==
    \A r \in Runners :
       \A f \in evAt[r].finished : \A p \in evAt[r].reaped :
          /\ f >= p
          /\ \A s \in evAt[r].started : f >= s + (p - s)


\* the event an emit step of the instance sends, by the stage it enters
C39_Sent(stage) == IF stage = "watch" THEN RuntimeStarted ELSE RuntimeFinished

\* C39: an instance emits at most twice and its events buffer holds at least
\* two events, so the buffer is never full at an emit: every emit (the
\* runtime-started one of newInstance, the runtime-finished one of run) finds
\* room and places its event on the channel, whatever the consumer has read
C39_NeverDropped ==
    /\ [](\A r \in Runners :
            /\ Len(emitted[r]) <= 2
            /\ Len(events[r]) <= Len(emitted[r])
            /\ EventsCap(agentKind) >= 2)
    /\ [][\A r \in Runners :
             (irun'[r] # irun[r] /\ irun'[r] \in {"watch", "emitted"}) =>
                /\ Len(events[r]) < EventsCap(agentKind)
                /\ events'[r] = Append(events[r], C39_Sent(irun'[r]))
                /\ emitted'[r] = Append(emitted[r], C39_Sent(irun'[r]))
         ]_vars

\* a codex instance (capacity 2) has emitted both events while nothing was
\* read from its channel: both are in the buffer
C39_Witness ==
    \E r \in Runners :
       /\ agentKind = "codex"
       /\ irun[r] = "emitted"
       /\ drain[r] # "returned"
       /\ events[r] = <<RuntimeStarted, RuntimeFinished>>
       /\ emitted[r] = events[r]


\* C38: once an instance's done signal is closed, a call to Wait returns the
\* instance's own result and error also when the context given to Wait is
\* already done; so a runner whose child completed successfully (done closed,
\* no instance error) never goes on to record the context error
C38_DoneWins ==
    /\ [](\A r \in Runners :
            (pc[r] = "finish" /\ done[r] /\ ierr[r] = NoErr) =>
               pendErr[r] # PlainErr(DeadlineMsg))
    /\ [][\A r \in Runners :
             (pc[r] = "wait" /\ pc'[r] = "waitret" /\ done[r]) =>
                sel'[r] = "done"]_vars


(***************************************************************************)
(* Runner processes started concurrently for one execution                 *)
(***************************************************************************)
\* the runner and its instance as in Next, but a runner process may be
\* started (without --retry) while another one is running: nothing in Spawn
\* or Run keeps a second process from starting. The store writes succeed,
\* the run deadline does not expire and the events are not drained
RaceNext ==
    \/ \E k \in Kinds : Create(k, ValidInput)
    \/ \E r \in Runners : RunGetStatus(r, FALSE)
    \/ \E r \in Runners : RunGetRuntime(r)
    \/ \E r \in Runners : RunUpdateStarted(r, FALSE)
    \/ \E r \in Runners, ok \in BOOLEAN : RunExecute(r, ok)
    \/ \E r \in Runners : RunUpdateRunning(r, FALSE)
    \/ \E r \in Runners : RunWaitEnter(r)
    \/ \E r \in Runners : RunWaitReturn(r)
    \/ \E r \in Runners : RunFinish(r, FALSE)
    \/ \E r \in Runners : RunSetResult(r, FALSE)
    \/ \E r \in Runners, c \in ExitCodes, resp \in Responses : ChildExit(r, c, resp)
    \/ \E r \in Runners : InstanceRun(r)
    \/ \E r \in Runners : InstanceCloseEvents(r)
    \/ \E r \in Runners : InstanceCloseDone(r)

RaceSpec == Init /\ [][RaceNext]_vars


\* C37: of the runner processes started without --retry for an execution in
\* state created, also when they are started concurrently, at most one passes
\* the state guard, makes the started transition and invokes the adapter: the
\* guard is passed once, started is written once with attempts 1, and at
\* most one runner has spawned a child
C37_OneRunnerPasses ==
    /\ guardPassed <= 1
    /\ startedRuns <= 1
    /\ status.attempts <= 1
    /\ Cardinality({r \in Runners : child[r] # "none"}) <= 1


(***************************************************************************)
(* Argument vectors of the adapters (claude/arguments.go, codex/instance.go *)
(* and the gemini arguments): a string is a sequence of pieces, an         *)
(* argument vector a sequence of strings                                   *)
(***************************************************************************)
\* RuntimeFeatures: each feature is a *bool, absent ({}) or present
FeatureValues == {{}, {TRUE}, {FALSE}}

Features ==
    [enableWebSearch : FeatureValues, enableNetworkAccess : FeatureValues]

\* ExecutionInput.Model, a *string: absent, empty, blank or a model name
ModelValues == {{}, {<<>>}, {<<" ">>}, {<<"m">>}}

\* ExecutionInput.ConversationID, a *ConversationID
ConversationValues == {{}, {<<>>}, {<<" ">>}, {<<"c">>}}

\* the elements of a sequence
Range(s) == {s[i] : i \in DOMAIN s}

\* the orders in which a range over a Go map may visit its entries
Orders(S) ==
    {s \in [1..Cardinality(S) -> S] : \A i, j \in DOMAIN s : s[i] = s[j] => i = j}

\* the concatenation of a sequence of sequences
Flatten(ss) == Concat(ss)

\* fmt.Sprintf("--%s", flag)
FlagArg(name) == <<"--", name>>

\* fmt.Sprintf("--%s=%s", key, value)
ValueArg(name, value) == <<"--", name, "=">> \o value

\* codex ToList: fmt.Sprintf("--%s=\"%s\"", key, value)
QuotedValueArg(name, value) == <<"--", name, "=", "\"">> \o value \o <<"\"">>

\* codex ToList: fmt.Sprintf("--config=\"%s=%s\"", key, value)
ConfigArg(key, value) ==
    <<"--", "config", "=", "\"", key, "=">> \o value \o <<"\"">>

\* valueToString, the bool case
BoolString(b) == IF b THEN <<"true">> ELSE <<"false">>

\* valueToString of codex: a string or a bool; any other type is unsupported
codexValueToString(type, value) ==
    IF type = "string"
    THEN IF TrimSpace(value) = <<>>
         THEN [err |-> "empty string", str |-> <<>>]
         ELSE [err |-> "", str |-> value]
    ELSE IF type = "bool"
    THEN [err |-> "", str |-> BoolString(value)]
    ELSE [err |-> "unsupported type", str |-> <<>>]

\* valueToString of gemini: also a ConversationID
geminiValueToString(type, value) ==
    IF type \in {"string", "ConversationID"}
    THEN IF TrimSpace(value) = <<>>
         THEN [err |-> "empty string", str |-> <<>>]
         ELSE [err |-> "", str |-> value]
    ELSE IF type = "bool"
    THEN [err |-> "", str |-> BoolString(value)]
    ELSE [err |-> "unsupported type", str |-> <<>>]

\* defaultArguments of codex and gemini; err is the first error of a setter
defaultArguments ==
    [flags |-> {}, values |-> {}, configOverrides |-> {}, err |-> ""]

\* m[key] = value of a Go map kept as a set of <<key, value>> entries
MapSet(m, key, value) == {e \in m : e[1] # key} \cup {<<key, value>>}

\* arguments.SetFlag
SetFlag(a, name) == [a EXCEPT !.flags = @ \cup {name}]

\* arguments.SetValue, given the valueToString of the kind; the caller returns
\* at the first error, so a setter after an error changes nothing
SetValue(a, name, str) ==
    IF a.err # "" THEN a
    ELSE IF str.err # "" THEN [a EXCEPT !.err = str.err]
    ELSE [a EXCEPT !.values = MapSet(@, name, str.str)]

\* codex arguments.SetConfigOverride: it stores into arguments.values
SetConfigOverride(a, key, str) ==
    IF a.err # "" THEN a
    ELSE IF str.err # "" THEN [a EXCEPT !.err = str.err]
    ELSE [a EXCEPT !.values = MapSet(@, key, str.str)]

\* codex arguments.ToList: the lists it may return, the flags, then the
\* values, then the config overrides, each map in any order
codexToList(a) ==
    {Flatten(<<[i \in DOMAIN fl |-> FlagArg(fl[i])],
               [i \in DOMAIN vl |-> QuotedValueArg(vl[i][1], vl[i][2])],
               [i \in DOMAIN cl |-> ConfigArg(cl[i][1], cl[i][2])]>>) :
        fl \in Orders(a.flags), vl \in Orders(a.values),
        cl \in Orders(a.configOverrides)}

\* gemini arguments.ToList
geminiToList(a) ==
    {Flatten(<<[i \in DOMAIN fl |-> FlagArg(fl[i])],
               [i \in DOMAIN vl |-> ValueArg(vl[i][1], vl[i][2])]>>) :
        fl \in Orders(a.flags), vl \in Orders(a.values)}

\* codex applyRuntimeFeaturesArguments
codexApplyRuntimeFeatures(a, features) ==
    LET net == IF features.enableNetworkAccess = {} THEN a
               ELSE SetConfigOverride(a, "sandbox_workspace_write.network_access",
                        codexValueToString("bool",
                            CHOOSE b \in features.enableNetworkAccess : TRUE))
    IN  IF features.enableWebSearch = {} THEN net
        ELSE SetConfigOverride(net, "features.web_search_request",
                 codexValueToString("bool",
                     CHOOSE b \in features.enableWebSearch : TRUE))

\* codex applyExecutionInputArguments
codexApplyExecutionInput(a, model) ==
    IF model = {} THEN a
    ELSE SetValue(a, "model",
                  codexValueToString("string", CHOOSE m \in model : TRUE))

\* codex newInstance, lines 56-84: the error of the argument building, or
\* the argument lists it may hand to exec.CommandContext (runtime config at
\* its default, so no --skip-git-repo-check)
codexArguments(features, model, conversationId) ==
    LET a == SetFlag(codexApplyExecutionInput(
                         codexApplyRuntimeFeatures(defaultArguments, features),
                         model), "json")
    IN  IF a.err # ""
        THEN [err |-> a.err, lists |-> {<<>>}]
        ELSE [err |-> "",
              lists |-> {<<<<"exec">>>> \o l \o
                             (IF conversationId = {} THEN <<<<"-">>>>
                              ELSE <<<<"resume">>,
                                     CHOOSE c \in conversationId : TRUE,
                                     <<"-">>>>) :
                         l \in codexToList(a)}]

\* gemini applyRuntimeFeaturesArguments
geminiApplyRuntimeFeatures(a, features) ==
    IF features.enableNetworkAccess = {FALSE} THEN SetFlag(a, "sandbox") ELSE a

\* gemini applyExecutionInputArguments
geminiApplyExecutionInput(a, model, conversationId) ==
    LET m == IF model = {} THEN a
             ELSE SetValue(a, "model",
                           geminiValueToString("string",
                                               CHOOSE v \in model : TRUE))
    IN  IF conversationId = {} THEN m
        ELSE SetValue(m, "resume",
                      geminiValueToString("ConversationID",
                                          CHOOSE c \in conversationId : TRUE))

\* gemini newInstance, lines 55-78
geminiArguments(features, model, conversationId) ==
    LET a == SetValue(geminiApplyExecutionInput(
                          geminiApplyRuntimeFeatures(defaultArguments, features),
                          model, conversationId),
                      "output-format",
                      geminiValueToString("string", <<"stream-json">>))
    IN  IF a.err # ""
        THEN [err |-> a.err, lists |-> {<<>>}]
        ELSE [err |-> "", lists |-> geminiToList(a)]

\* NewClaudeArguments, ApplyRuntimeFeatures, ApplyExecutionInput and ToSlice
\* of claude: no step returns an error and the order is that of ToSlice
claudeArguments(features, model, conversationId) ==
    [err |-> "",
     lists |-> {<<FlagArg("print"), FlagArg("verbose"),
                  ValueArg("output-format", <<"stream-json">>)>>
                \o (IF model = {} THEN <<>>
                    ELSE <<ValueArg("model", CHOOSE m \in model : TRUE)>>)
                \o (IF conversationId = {} THEN <<>>
                    ELSE <<ValueArg("resume",
                                    CHOOSE c \in conversationId : TRUE)>>)
                \o (IF features.enableWebSearch = {FALSE}
                    THEN <<ValueArg("disallowed-tools", <<"WebSearch">>)>>
                    ELSE <<>>)}]

\* the argument building of the adapter of a kind
Arguments(kind, features, model, conversationId) ==
    IF kind = "claude" THEN claudeArguments(features, model, conversationId)
    ELSE IF kind = "codex" THEN codexArguments(features, model, conversationId)
    ELSE geminiArguments(features, model, conversationId)

\* newInstance up to exec.CommandContext: the adapter builds the argument
\* vector of its child from the features and the execution input
BuildArguments(kind, features, model, conversationId) ==
    /\ \E l \in Arguments(kind, features, model, conversationId).lists :
          built' = [kind |-> kind, features |-> features, model |-> model,
                    conversationId |-> conversationId,
                    err |-> Arguments(kind, features, model,
                                      conversationId).err,
                    list |-> l]
    /\ UNCHANGED <<logsOpen, elapsed, evAt>>
    /\ UNCHANGED <<root, execs, ret, issued, given, setLog, clock>>
    /\ UNCHANGED <<runVars, instVars, evVars, subVars, storeVars, lastFailed,
                   snapVars, claudeVars, watchVars>>

ArgsNext ==
    \E kind \in RegisteredKinds, features \in Features, model \in ModelValues,
       conversationId \in ConversationValues :
          BuildArguments(kind, features, model, conversationId)

ArgsSpec == Init /\ [][ArgsNext]_vars


\* a string without its quote pieces
Unquoted(e) == SelectSeq(e, LAMBDA piece : piece # "\"")

\* e is a --config argument that carries key=value
IsConfigOverride(e, key, value) ==
    Unquoted(e) = <<"--", "config", "=", key, "=">> \o value

\* e is an option named by the key itself, --<key>=...
IsKeyOption(e, key) == Len(e) >= 2 /\ e[1] = "--" /\ e[2] = key

\* the list holds a config override for the key with the value of the
\* feature, and no option named by the key
C34_Override(list, key, feature) ==
    feature # {} =>
       /\ \E e \in Range(list) :
             IsConfigOverride(e, key, BoolString(CHOOSE b \in feature : TRUE))
       /\ \A e \in Range(list) : ~IsKeyOption(e, key)

\* exec first, --json inside, "-" last, and "resume <id>" before it when a
\* conversation id is given
C34_Shape(list, conversationId) ==
    /\ Len(list) >= 3
    /\ list[1] = <<"exec">>
    /\ FlagArg("json") \in Range(list)
    /\ list[Len(list)] = <<"-">>
    /\ conversationId # {} =>
          /\ Len(list) >= 5
          /\ list[Len(list) - 2] = <<"resume">>
          /\ list[Len(list) - 1] = CHOOSE c \in conversationId : TRUE

\* C34: the codex adapter renders a present enableWebSearch as a --config
\* argument for features.web_search_request and a present enableNetworkAccess
\* as one for sandbox_workspace_write.network_access, each with the feature's
\* boolean and not as a --<key>=value option; its argument vector starts with
\* exec, contains --json and ends with "-", after "resume <id>" if a
\* conversation id is given
C34_CodexArguments ==
    (built.kind = "codex" /\ built.err = "") =>
       /\ C34_Override(built.list, "features.web_search_request",
                       built.features.enableWebSearch)
       /\ C34_Override(built.list, "sandbox_workspace_write.network_access",
                       built.features.enableNetworkAccess)
       /\ C34_Shape(built.list, built.conversationId)

\* the part of C34 about the shape of the vector
C34_VectorShape ==
    (built.kind = "codex" /\ built.err = "") =>
       C34_Shape(built.list, built.conversationId)

\* the list holds a config override for the key, with either boolean
C35_HasOverride(list, key) ==
    \E e \in Range(list), b \in BOOLEAN : IsConfigOverride(e, key, BoolString(b))

\* C35: features are tri-state in every adapter. Claude disallows WebSearch
\* if and only if enableWebSearch is present and false; codex emits the
\* override of a feature if and only if the feature is present, with its
\* value; gemini adds --sandbox if and only if enableNetworkAccess is present
\* and false
C35_TriState ==
    built.err = "" =>
       /\ built.kind = "claude" =>
             (ValueArg("disallowed-tools", <<"WebSearch">>) \in Range(built.list)
                <=> built.features.enableWebSearch = {FALSE})
       /\ built.kind = "codex" =>
             /\ C35_HasOverride(built.list, "features.web_search_request")
                   <=> built.features.enableWebSearch # {}
             /\ C35_HasOverride(built.list,
                                "sandbox_workspace_write.network_access")
                   <=> built.features.enableNetworkAccess # {}
       /\ built.kind = "gemini" =>
             (FlagArg("sandbox") \in Range(built.list)
                <=> built.features.enableNetworkAccess = {FALSE})

\* the tri-state distinction as the code keeps it: the argument that names
\* the key of a codex feature is there if and only if the feature is present
C35_KeyedByPresence ==
    (built.kind = "codex" /\ built.err = "") =>
       /\ (\E e \in Range(built.list) :
              IsKeyOption(e, "features.web_search_request"))
             <=> built.features.enableWebSearch # {}
       /\ (\E e \in Range(built.list) :
              IsKeyOption(e, "sandbox_workspace_write.network_access"))
             <=> built.features.enableNetworkAccess # {}

\* an optional string value that is present and empty or blank
C36_Blank(value) == \E v \in value : TrimSpace(v) = <<>>

\* C36: in every adapter a model or a conversation id that is empty or blank
\* is rejected with an error before the child is spawned, and no argument
\* vector holds an element --<name>= with an empty value
C36_EmptyRejected ==
    /\ (built.kind # "none"
          /\ (C36_Blank(built.model) \/ C36_Blank(built.conversationId)))
          => built.err # ""
    /\ \A e \in Range(built.list) :
          ~(Len(e) = 3 /\ e[1] = "--" /\ e[3] = "=")

====
